---- MODULE Spec2Model ----
(***************************************************************************)
(* Model of the voyage ingest engine (src/voyage-ingest/voyage_ingest).    *)
(*                                                                         *)
(* The module holds several specifications over one set of variables:      *)
(*   SpecRetry  - the two retry harnesses (_gapi_with_retry in db_updater, *)
(*                _execute_with_backoff in sheets_updater) driven by a     *)
(*                remote that fails a number of times and then succeeds.   *)
(*   SpecDb     - the database writer (db_updater.py): upsert_all as a     *)
(*                transaction stepped statement by statement, the two      *)
(*                presidents resets, and the reconciler's database prunes. *)
(*   Spec       - runs of main.py, one after another: global reconcile,    *)
(*                then per voyage validation, media step, spreadsheet and  *)
(*                database writes and prunes, and the log rows, with       *)
(*                remote failures.                                         *)
(*   SpecMedia  - process_all_media called with or without a spreadsheet   *)
(*                id, followed by the spreadsheet write of its results.    *)
(*   SpecLib    - calls of the functions of the slugger, the parser and    *)
(*                the validator, and of the two sort_order derivations,    *)
(*                on texts: an argument is drawn, the function returns.    *)
(*   SpecTab    - one spreadsheet tab at row level: _upsert through the    *)
(*                index cache and delete_rows, with failing remote calls.  *)
(* Each specification keeps the variables of the other parts fixed.        *)
(***************************************************************************)
EXTENDS Integers, Sequences, FiniteSets, TLC

VARIABLES
    r_harness, r_remote, r_attempt, r_calls, r_sleeps, r_slept, r_raises, r_result,
    db, tx, PRES_UPSERTED, pres_sheet, db_last,
    s3, s3_log, sheet, MEDIA_CACHE, run, start, prev,
    call,
    grid, INDEX_CACHE, tab_op

retryVars == <<r_harness, r_remote, r_attempt, r_calls, r_sleeps, r_slept, r_raises, r_result>>
dbVars == <<db, tx, PRES_UPSERTED, pres_sheet, db_last>>

pipeVars == <<s3, s3_log, sheet, MEDIA_CACHE, run, start, prev>>
\* the call of a function of the slugger, the parser or the validator in hand
libVars == <<call>>
\* one tab of the spreadsheet, the index cache of the writer, the last operation on it
tabVars == <<grid, INDEX_CACHE, tab_op>>
auxVars == <<libVars, tabVars>>
vars == <<retryVars, dbVars, pipeVars, auxVars>>

(***************************************************************************)
(* Domain: slugs and rows are abstract values. A missing or empty field is *)
(* the empty string, as in the parsed records.                             *)
(***************************************************************************)

\* two voyages, each of another president
VoyageSlugs == {"v1", "v2"}
PresidentSlugs == {"fdr", "hst"}
PersonSlugs == {"p1", "p2"}
MediaSlugs == {"v1-01", "v2-01"}
Links == {"L1"}
Titles == {"t1", "t2"}

\* the voyages column president_slug_from_voyage that the presidents prune reads
\* (db_updater.py:456): the president part of the voyage slug
PresidentOfVoyage(v) == IF v = "v1" THEN "fdr" ELSE "hst"

\* the voyage slug a media slug embeds (validator.py:19, MEDIA_SLUG_RE_TMPL)
VoyageOfMedia(m) == IF m = "v1-01" THEN "v1" ELSE "v2"

\* an s3:// or https:// reference; NoUrl is Python's None / ""
NoUrl == [scheme |-> "", bucket |-> "", key |-> <<>>]

\* f with key k set to v (INSERT ... ON CONFLICT (k) DO UPDATE)
Upsert(f, k, v) == [x \in (DOMAIN f) \cup {k} |-> IF x = k THEN v ELSE f[x]]
\* f without the keys in ks (DELETE)
Without(f, ks) == [x \in (DOMAIN f) \ ks |-> f[x]]
EmptyMap == [x \in {} |-> ""]
SeqToSet(q) == {q[i] : i \in 1..Len(q)}

EmptyDb == [presidents |-> {}, voyages |-> EmptyMap, people |-> EmptyMap,
            media |-> EmptyMap, voyage_passengers |-> EmptyMap, voyage_media |-> EmptyMap]
NoTx == [step |-> "idle"]

\* the database part at rest, for the specifications that do not touch it
DbIdle ==
    /\ db = EmptyDb
    /\ tx = NoTx
    /\ PRES_UPSERTED = FALSE
    /\ pres_sheet = {}
    /\ db_last = [op |-> "none", raised |-> FALSE]

EmptySheet ==
    [voyages |-> <<>>, passengers |-> <<>>, media |-> <<>>,
     voyage_passengers |-> <<>>, voyage_media |-> <<>>, ingest_log |-> <<>>]
NoRun == [pc |-> "idle"]
NoSnapshot == [taken |-> FALSE, n |-> 0, s3 |-> {}, db |-> EmptyDb, sheet |-> EmptySheet]
NoCfg == [mode |-> "", dry_run |-> FALSE, prune_masters |-> FALSE]
NoPrev == [ended |-> FALSE, doc |-> <<>>, cfg |-> NoCfg, clean |-> FALSE, puts |-> {}]
PipeIdle ==
    /\ s3 = {}
    /\ s3_log = <<>>
    /\ sheet = EmptySheet
    /\ MEDIA_CACHE = [loaded |-> FALSE, map |-> EmptyMap]
    /\ run = NoRun
    /\ start = NoSnapshot
    /\ prev = NoPrev
NoCall == [fn |-> "none"]
LibIdle == call = NoCall
NoKeymap == [built |-> FALSE, map |-> [k \in {} |-> 0]]
NoCache == [loaded |-> FALSE, rows |-> <<>>, keymap |-> NoKeymap, fetches |-> 0]
NoEnsure == [meta_reads |-> 0, create_batches |-> 0, header_batches |-> 0]
NoOp == [op |-> "none", seq |-> 0, ensure |-> NoEnsure]
NoGrid == [exists |-> FALSE, header |-> <<>>, rows |-> <<>>]
TabIdle ==
    /\ grid = NoGrid
    /\ INDEX_CACHE = NoCache
    /\ tab_op = NoOp
AuxIdle == LibIdle /\ TabIdle
NoRetryAfter == [given |-> FALSE, numeric |-> FALSE, ms |-> 0]
RetryIdle ==
    /\ r_harness = "gapi"
    /\ r_remote = [n |-> 1, err |-> "429", retry_after |-> NoRetryAfter]
    /\ r_attempt = 0 /\ r_calls = 0 /\ r_sleeps = 0 /\ r_slept = 0 /\ r_raises = 0
    /\ r_result = "running"

(***************************************************************************)
(* Retry harnesses                                                         *)
(***************************************************************************)

\* GAPI_MAX_RETRIES default (db_updater.py:15)
MAX_RETRIES == 10
\* default of the max_attempts keyword (sheets_updater.py:171)
max_attempts == 10

\* largest N (index of the first successful call) the remote is given
MaxN == 13

\* errors a wrapped call can raise: HttpError with a status, HttpError 403 whose
\* message carries a rate-limit marker, and an exception that is no HttpError
ErrKinds == {"429", "500", "404", "403ratelimit", "other"}

RetryableStatus(e) == e \in {"429", "500"}

\* db_updater.py:39-47: status in (429,500,502,503,504), or a rate-limit marker
GapiRetryable5xxOnly(e) == e = "500" \/ e = "403ratelimit"
GapiRetryable(e) == RetryableStatus(e) \/ e = "403ratelimit"

\* db_updater.py:48 and :56 - the attempt after which the harness gives up
GapiGivesUp(attempt) == attempt >= MAX_RETRIES

\* sheets_updater.py:187-189 - attempt is incremented first, then compared
SheetsGivesUp(attempt) == attempt >= max_attempts

\* GAPI_BACKOFF_BASE and GAPI_BACKOFF_MAX defaults, in milliseconds
\* (db_updater.py:16-17)
BACKOFF_BASE == 800
BACKOFF_MAX == 30000
\* defaults of the base and jitter keywords, in milliseconds (sheets_updater.py:171)
base == 500
jitter == 250

RECURSIVE Pow2(_)
Pow2(n) == IF n <= 0 THEN 1 ELSE 2 * Pow2(n - 1)
Least(a, b) == IF a <= b THEN a ELSE b
\* random.random() in thousandths, and random.uniform(0, jitter)
RandomDraws == {0, 500, 999}
JitterDraws == {0, jitter}
\* the Retry-After header of the failed responses: absent, a number of
\* seconds, or an HTTP date that float() does not parse
RetryAfters ==
    {NoRetryAfter, [given |-> TRUE, numeric |-> TRUE, ms |-> 2000],
     [given |-> TRUE, numeric |-> TRUE, ms |-> 60000], [given |-> TRUE, numeric |-> FALSE, ms |-> 0]}

\* sleep_s of _gapi_with_retry (db_updater.py:51, 59):
\* min(_BACKOFF_MAX, _BACKOFF_BASE * 2**attempt * (0.5 + random.random()))
GapiSleep(attempt, rnd) ==
    Least(BACKOFF_MAX, (BACKOFF_BASE * Pow2(attempt) * (500 + rnd)) \div 1000)
\* sleep_s of _execute_with_backoff (sheets_updater.py:190-199): the header's
\* value when it is there and float() parses it, else
\* base * 2**(attempt - 1) + random.uniform(0, jitter)
SheetsSleep(attempt, retry_after, j) ==
    IF retry_after.given /\ retry_after.numeric THEN retry_after.ms
    ELSE base * Pow2(attempt - 1) + j

\* outcome of invocation number k of the wrapped call
RemoteOutcome(remote, k) == IF k >= remote.n THEN "ok" ELSE remote.err

RetryInit ==
    /\ r_harness \in {"gapi", "sheets"}
    /\ r_remote \in [n : 1..MaxN, err : ErrKinds, retry_after : RetryAfters]
    /\ r_attempt = 0
    /\ r_calls = 0
    /\ r_sleeps = 0
    /\ r_slept = 0
    /\ r_raises = 0
    /\ r_result = "running"

\* _gapi_with_retry, one pass of the for loop (db_updater.py:36-62)
GapiReturn ==
    /\ r_harness = "gapi" /\ r_result = "running"
    /\ RemoteOutcome(r_remote, r_calls + 1) = "ok"
    /\ r_calls' = r_calls + 1
    /\ r_result' = "returned"
    /\ UNCHANGED <<dbVars, pipeVars, auxVars>> /\ UNCHANGED <<r_harness, r_remote, r_attempt, r_sleeps, r_slept, r_raises>>

GapiRaise ==
    /\ r_harness = "gapi" /\ r_result = "running"
    /\ LET e == RemoteOutcome(r_remote, r_calls + 1) IN
        /\ e # "ok"
        /\ IF e = "other"
             THEN GapiGivesUp(r_attempt)
             ELSE ~GapiRetryable(e) \/ GapiGivesUp(r_attempt)
    /\ r_calls' = r_calls + 1
    /\ r_raises' = r_raises + 1
    /\ r_result' = "raised"
    /\ UNCHANGED <<dbVars, pipeVars, auxVars>> /\ UNCHANGED <<r_harness, r_remote, r_attempt, r_sleeps, r_slept>>

GapiSleepRetry ==
    /\ r_harness = "gapi" /\ r_result = "running"
    /\ LET e == RemoteOutcome(r_remote, r_calls + 1) IN
        /\ e # "ok"
        /\ IF e = "other"
             THEN ~GapiGivesUp(r_attempt)
             ELSE GapiRetryable(e) /\ ~GapiGivesUp(r_attempt)
    /\ r_calls' = r_calls + 1
    /\ r_sleeps' = r_sleeps + 1
    /\ \E rnd \in RandomDraws : r_slept' = GapiSleep(r_attempt, rnd)
    /\ r_attempt' = r_attempt + 1
    /\ UNCHANGED <<dbVars, pipeVars, auxVars>> /\ UNCHANGED <<r_harness, r_remote, r_raises, r_result>>

\* _execute_with_backoff, one pass of the while loop (sheets_updater.py:177-204)
SheetsReturn ==
    /\ r_harness = "sheets" /\ r_result = "running"
    /\ RemoteOutcome(r_remote, r_calls + 1) = "ok"
    /\ r_calls' = r_calls + 1
    /\ r_result' = "returned"
    /\ UNCHANGED <<dbVars, pipeVars, auxVars>> /\ UNCHANGED <<r_harness, r_remote, r_attempt, r_sleeps, r_slept, r_raises>>

SheetsRaise ==
    /\ r_harness = "sheets" /\ r_result = "running"
    /\ LET e == RemoteOutcome(r_remote, r_calls + 1) IN
        /\ e # "ok"
        /\ \/ e = "other"                      \* not an HttpError: not caught
           \/ ~RetryableStatus(e)              \* line 204
           \/ SheetsGivesUp(r_attempt + 1)     \* line 188-189
        /\ r_attempt' = IF e # "other" /\ RetryableStatus(e) THEN r_attempt + 1 ELSE r_attempt
    /\ r_calls' = r_calls + 1
    /\ r_raises' = r_raises + 1
    /\ r_result' = "raised"
    /\ UNCHANGED <<dbVars, pipeVars, auxVars>> /\ UNCHANGED <<r_harness, r_remote, r_sleeps, r_slept>>

SheetsSleepRetry ==
    /\ r_harness = "sheets" /\ r_result = "running"
    /\ LET e == RemoteOutcome(r_remote, r_calls + 1) IN
        /\ e # "ok" /\ e # "other"
        /\ RetryableStatus(e)
        /\ ~SheetsGivesUp(r_attempt + 1)
    /\ r_calls' = r_calls + 1
    /\ r_attempt' = r_attempt + 1
    /\ r_sleeps' = r_sleeps + 1
    /\ \E j \in JitterDraws : r_slept' = SheetsSleep(r_attempt + 1, r_remote.retry_after, j)
    /\ UNCHANGED <<dbVars, pipeVars, auxVars>> /\ UNCHANGED <<r_harness, r_remote, r_raises, r_result>>

RetryNext ==
    \/ GapiReturn \/ GapiRaise \/ GapiSleepRetry
    \/ SheetsReturn \/ SheetsRaise \/ SheetsSleepRetry

InitRetry == RetryInit /\ DbIdle /\ PipeIdle /\ AuxIdle
SpecRetry == InitRetry /\ [][RetryNext]_vars

\* the harness's own retry limit
RetryLimit == IF r_harness = "gapi" THEN MAX_RETRIES ELSE max_attempts

(* C10: a remote that fails with 429 on its first N-1 invocations and succeeds
   on the Nth, N <= MAX_RETRIES: the harness never raises, and when it has
   finished it has returned the result after exactly N invocations. *)
C10_RetrySuccess ==
    (r_remote.err = "429" /\ r_remote.n <= RetryLimit) =>
        /\ r_result # "raised"
        /\ r_calls <= r_remote.n
        /\ (r_result = "returned" => r_calls = r_remote.n)
        /\ (r_calls = r_remote.n => r_result = "returned")

C10_Witness ==
    /\ r_remote.err = "429" /\ r_remote.n = RetryLimit
    /\ r_result = "returned" /\ r_calls = RetryLimit /\ r_sleeps = RetryLimit - 1

(* C11: a remote that fails with a retryable status on its first N-1       *)
(* invocations, N > MAX_RETRIES: the harness never returns success, it     *)
(* invokes the call at most MAX_RETRIES times, and after the MAX_RETRIES-th *)
(* invocation it has raised, once, and stopped.                            *)
C11_RetryExhaustion ==
    (RetryableStatus(r_remote.err) /\ r_remote.n > RetryLimit) =>
        /\ r_result # "returned"
        /\ r_calls <= RetryLimit
        /\ r_raises <= 1
        /\ (r_calls = RetryLimit => (r_result = "raised" /\ r_raises = 1))

\* an error the claim does not count as retryable: an HttpError of another
\* status without rate-limit marker, or an exception that is no HttpError
NotClassifiedRetryable(e) == ~RetryableStatus(e) /\ e # "403ratelimit"

(* C12: when the first invocation raises an error that is not classified   *)
(* as retryable, the harness raises it after exactly one invocation, with  *)
(* no sleep and no second invocation.                                      *)
C12_NonRetryablePropagates ==
    (NotClassifiedRetryable(r_remote.err) /\ r_remote.n > 1) =>
        /\ r_sleeps = 0
        /\ r_calls <= 1
        /\ (r_calls = 1 => (r_result = "raised" /\ r_raises = 1))

(***************************************************************************)
(* Database writer (db_updater.py)                                         *)
(***************************************************************************)

\* rows written for a bundle, statement by statement (db_updater.py:281-394)

\* INSERT INTO voyages ... ON CONFLICT (voyage_slug) DO UPDATE (lines 281-303)
StmtVoyage(d, b, links) ==
    [d EXCEPT !.voyages = Upsert(@, b.voyage.voyage_slug, [title |-> b.voyage.title])]

\* people rows, only "if ppl" (lines 305-331)
RECURSIVE UpsertPeople(_, _)
UpsertPeople(t, ppl) ==
    IF ppl = <<>> THEN t
    ELSE UpsertPeople(Upsert(t, Head(ppl).slug, [full_name |-> Head(ppl).full_name]), Tail(ppl))
StmtPeopleSkipped(d, b, links) == d
StmtPeople(d, b, links) == [d EXCEPT !.people = UpsertPeople(@, b.passengers)]

\* s3_links.get(mslug, (None, None)) (line 337)
LinkOf(links, m) == IF m \in DOMAIN links THEN links[m] ELSE [orig |-> NoUrl, pub |-> NoUrl]

\* media rows, only "if med" (lines 333-365)
RECURSIVE UpsertMedia(_, _, _)
UpsertMedia(t, med, links) ==
    IF med = <<>> THEN t
    ELSE UpsertMedia(
            Upsert(t, Head(med).slug,
                   [s3_url |-> LinkOf(links, Head(med).slug).orig,
                    public_derivative_url |-> LinkOf(links, Head(med).slug).pub,
                    google_drive_link |-> Head(med).google_drive_link]),
            Tail(med), links)
StmtMedia(d, b, links) == [d EXCEPT !.media = UpsertMedia(@, b.media, links)]

\* voyage_passengers rows (lines 367-377)
RECURSIVE UpsertVP(_, _, _)
UpsertVP(t, v, ppl) ==
    IF ppl = <<>> THEN t
    ELSE UpsertVP(Upsert(t, <<v, Head(ppl).slug>>, [capacity_role |-> ""]), v, Tail(ppl))
StmtVoyagePassengers(d, b, links) ==
    [d EXCEPT !.voyage_passengers = UpsertVP(@, b.voyage.voyage_slug, b.passengers)]

\* sort_order from the text after the last hyphen, when it is digits (lines 383-386)
SortOrderDb(m) == IF m \in MediaSlugs THEN 1 ELSE 0

\* voyage_media rows (lines 379-394)
RECURSIVE UpsertVM(_, _, _)
UpsertVM(t, v, med) ==
    IF med = <<>> THEN t
    ELSE UpsertVM(Upsert(t, <<v, Head(med).slug>>, [sort_order |-> SortOrderDb(Head(med).slug)]),
                  v, Tail(med))
StmtVoyageMedia(d, b, links) ==
    [d EXCEPT !.voyage_media = UpsertVM(@, b.voyage.voyage_slug, b.media)]

\* _upsert_presidents (lines 208-234): once per process, from the presidents tab
StmtPresidents(d, flagged, sheetRows) ==
    IF flagged \/ sheetRows = {} THEN d
    ELSE [d EXCEPT !.presidents = @ \cup sheetRows]

\* a statement the database rejects whatever the remote does: a NULL primary key
\* (_ns turns a missing slug into None, lines 309 and 336)
StmtRejected(step, b) ==
    \/ step = "people" /\ \E i \in 1..Len(b.passengers) : b.passengers[i].slug = ""
    \/ step = "media" /\ \E i \in 1..Len(b.media) : b.media[i].slug = ""

TxSteps == <<"presidents", "voyage", "people", "media", "voyage_passengers", "voyage_media", "commit">>
StepIndex(step) == CHOOSE i \in 1..Len(TxSteps) : TxSteps[i] = step

\* the tables of the open transaction after statement `step`
ApplyStmt(step, d, b, links, flagged, sheetRows) ==
    CASE step = "presidents" -> StmtPresidents(d, flagged, sheetRows)
      [] step = "voyage" -> StmtVoyage(d, b, links)
      [] step = "people" -> StmtPeople(d, b, links)
      [] step = "media" -> StmtMedia(d, b, links)
      [] step = "voyage_passengers" -> StmtVoyagePassengers(d, b, links)
      [] step = "voyage_media" -> StmtVoyageMedia(d, b, links)
      [] OTHER -> d

\* except: conn.rollback(); raise (lines 398-401) - what is committed afterwards
AfterExceptionPartialCommit(committed, work) == work
AfterException(committed, work) == committed

\* bundles handed to upsert_all
Passenger(p) == [slug |-> p, full_name |-> "n"]
PassengerLists ==
    {<<>>, <<Passenger("p1")>>, <<Passenger("p1"), Passenger("p2")>>,
     <<Passenger("p2"), Passenger("")>>}
MediaItem(m, l) ==
    [slug |-> m, google_drive_link |-> l, media_type |-> "image", credit |-> "White House"]
MediaLists(v) == {<<>>} \cup {<<MediaItem(m, "L1")>> : m \in {x \in MediaSlugs : VoyageOfMedia(x) = v}}
BundlesOf(v) ==
    {[voyage |-> [voyage_slug |-> v, title |-> t], passengers |-> ppl, media |-> med] :
        t \in Titles, ppl \in PassengerLists, med \in MediaLists(v)}
Bundles == UNION {BundlesOf(v) : v \in VoyageSlugs}
DbBundles ==
    {b \in Bundles : \/ b.voyage.voyage_slug = "v1"
                     \/ b.voyage.title = "t1" /\ Len(b.passengers) <= 1 /\ b.media = <<>>}

S3_PRIVATE_BUCKET == "sequoia-canonical"
S3_PUBLIC_BUCKET == "sequoia-public"
SomeUrl(m) == [scheme |-> "s3", bucket |-> S3_PRIVATE_BUCKET, key |-> <<"media", m>>]
\* result maps of the media step that upsert_all may be given
LinkMaps(b) ==
    {EmptyMap} \cup
    {[m \in {b.media[i].slug : i \in 1..Len(b.media)} |-> [orig |-> SomeUrl(m), pub |-> NoUrl]]}

\* a connection of the writer, by what has been called on it: conn = _conn();
\* conn.autocommit = False (lines 241, 415-416, 490-491)
OpenConn ==
    [autocommit |-> FALSE, commit_calls |-> 0, committed |-> 0, rollback_calls |-> 0,
     closed |-> FALSE]
\* conn.commit(), returning or raising; conn.rollback(); conn.close()
CommitConn(c, returns) ==
    [c EXCEPT !.commit_calls = @ + 1, !.committed = @ + (IF returns THEN 1 ELSE 0)]
RollbackConn(c) == [c EXCEPT !.rollback_calls = @ + 1]
CloseConn(c) == [c EXCEPT !.closed = TRUE]
\* the success path: conn.commit(); finally: conn.close() (lines 396, 402-403)
ConnAfterCommit(c) == CloseConn(CommitConn(c, TRUE))
\* the exception path, the exception coming from a statement or from
\* conn.commit(): except: conn.rollback(); raise; finally: conn.close()
\* (lines 398-403, 471-476, 505-510)
ConnAfterRaiseLeaked(c, at_commit) ==
    RollbackConn(IF at_commit THEN CommitConn(c, FALSE) ELSE c)
ConnAfterRaise(c, at_commit) ==
    CloseConn(RollbackConn(IF at_commit THEN CommitConn(c, FALSE) ELSE c))
\* the connection of a reset that succeeds, or raises in a statement or in commit
ConnOfReset(ok, at_commit) ==
    IF ok THEN ConnAfterCommit(OpenConn) ELSE ConnAfterRaise(OpenConn, at_commit)

\* upsert_all: conn = _conn(); conn.autocommit = False (lines 238-241)
UpsertAllBegin ==
    /\ tx.step = "idle"
    /\ \E b \in DbBundles : \E links \in LinkMaps(b) :
        tx' = [step |-> "presidents", b |-> b, links |-> links, work |-> db, before |-> db,
               conn |-> OpenConn, flagged_before |-> PRES_UPSERTED]
    /\ db_last' = [op |-> "upsert_all_running", raised |-> FALSE]
    /\ UNCHANGED <<db, PRES_UPSERTED, pres_sheet>>
    /\ UNCHANGED <<retryVars, pipeVars, auxVars>>

\* one statement of the transaction succeeds (lines 243-394)
TxStatement ==
    /\ tx.step \notin {"idle", "commit"}
    /\ ~StmtRejected(tx.step, tx.b)
    /\ tx' = [tx EXCEPT
                !.work = ApplyStmt(tx.step, tx.work, tx.b, tx.links, PRES_UPSERTED, pres_sheet),
                !.step = TxSteps[StepIndex(tx.step) + 1]]
    /\ PRES_UPSERTED' = (PRES_UPSERTED \/ tx.step = "presidents")
    /\ UNCHANGED <<db, pres_sheet, db_last>>
    /\ UNCHANGED <<retryVars, pipeVars, auxVars>>

\* conn.commit() succeeds; finally: conn.close() (lines 396-403)
TxCommit ==
    /\ tx.step = "commit"
    /\ db' = tx.work
    /\ tx' = NoTx
    /\ db_last' = [op |-> "upsert_all", raised |-> FALSE, failed |-> FALSE, at |-> tx.step,
                   dirty |-> (tx.work # db), conn |-> ConnAfterCommit(tx.conn),
                   flagged_before |-> tx.flagged_before]
    /\ UNCHANGED <<PRES_UPSERTED, pres_sheet>>
    /\ UNCHANGED <<retryVars, pipeVars, auxVars>>

\* a statement or the commit raises - the database rejects it, or the connection or
\* the presidents read fails: rollback, raise, close (lines 398-403)
TxException ==
    /\ tx.step # "idle"
    /\ db' = AfterException(db, tx.work)
    /\ tx' = NoTx
    /\ db_last' = [op |-> "upsert_all", raised |-> TRUE, failed |-> TRUE, at |-> tx.step,
                   dirty |-> (tx.work # db),
                   conn |-> ConnAfterRaise(tx.conn, tx.step = "commit"),
                   flagged_before |-> tx.flagged_before]
    /\ UNCHANGED <<PRES_UPSERTED, pres_sheet>>
    /\ UNCHANGED <<retryVars, pipeVars, auxVars>>

Referenced(d, p) == \E v \in DOMAIN d.voyages : PresidentOfVoyage(v) = p

\* reset_presidents_table_from_list (lines 407-476): upsert the incoming presidents,
\* then delete those neither incoming nor referenced by a voyage
SafeResetResult(d, incoming) ==
    [d EXCEPT !.presidents =
        {p \in (@ \cup incoming) : p \in incoming \/ Referenced(d, p)}]

ResetPresidentsFromList ==
    /\ tx.step = "idle"
    /\ \E incoming \in SUBSET PresidentSlugs : \E ok, at_commit \in BOOLEAN :
        /\ db' = IF ok THEN SafeResetResult(db, incoming) ELSE db
        /\ db_last' = [op |-> "reset_presidents_table_from_list", raised |-> ~ok,
                       incoming |-> incoming, conn |-> ConnOfReset(ok, at_commit)]
    /\ UNCHANGED <<tx, PRES_UPSERTED, pres_sheet>>
    /\ UNCHANGED <<retryVars, pipeVars, auxVars>>

\* reset_presidents_table (lines 480-511, the definition in force): TRUNCATE, then
\* insert the rows of the presidents tab
TruncateResetResult(d, sheetRows) == [d EXCEPT !.presidents = sheetRows]

ResetPresidentsTable ==
    /\ tx.step = "idle"
    /\ \E ok, at_commit \in BOOLEAN :
        /\ db' = IF ok THEN TruncateResetResult(db, pres_sheet) ELSE db
        /\ db_last' = [op |-> "reset_presidents_table", raised |-> ~ok,
                       incoming |-> pres_sheet, conn |-> ConnOfReset(ok, at_commit)]
    /\ UNCHANGED <<tx, PRES_UPSERTED, pres_sheet>>
    /\ UNCHANGED <<retryVars, pipeVars, auxVars>>

\* reconciler.diff_and_prune_db as the specification describes it (spec 4.9, per-voyage
\* scope): join rows of the bundle's voyage whose key is not in the bundle are removed;
\* with prune_masters, media and people rows no join row references are removed
BundlePeople(b) == {b.passengers[i].slug : i \in 1..Len(b.passengers)}
BundleMedia(b) == {b.media[i].slug : i \in 1..Len(b.media)}
PruneJoins(d, b) ==
    [d EXCEPT
        !.voyage_passengers =
            Without(@, {k \in DOMAIN @ : k[1] = b.voyage.voyage_slug /\ k[2] \notin BundlePeople(b)}),
        !.voyage_media =
            Without(@, {k \in DOMAIN @ : k[1] = b.voyage.voyage_slug /\ k[2] \notin BundleMedia(b)})]
PruneMasters(d) ==
    [d EXCEPT
        !.people = Without(@, {p \in DOMAIN @ : ~\E k \in DOMAIN d.voyage_passengers : k[2] = p}),
        !.media = Without(@, {m \in DOMAIN @ : ~\E k \in DOMAIN d.voyage_media : k[2] = m})]
DiffAndPruneDbResult(d, b, prune_masters) ==
    IF prune_masters THEN PruneMasters(PruneJoins(d, b)) ELSE PruneJoins(d, b)

\* reconciler.prune_voyages_missing_from_doc_with_set on the database (spec 4.9, global
\* scope; main.py:214-216 reads its db_deleted_vm, db_deleted_vp, db_deleted_voyages)
GlobalPruneDbResult(d, desired) ==
    [d EXCEPT
        !.voyages = Without(@, DOMAIN @ \ desired),
        !.voyage_passengers = Without(@, {k \in DOMAIN @ : k[1] \notin desired}),
        !.voyage_media = Without(@, {k \in DOMAIN @ : k[1] \notin desired})]

DiffAndPruneDb ==
    /\ tx.step = "idle"
    /\ \E b \in DbBundles : \E prune_masters \in BOOLEAN :
        /\ db' = DiffAndPruneDbResult(db, b, prune_masters)
        /\ db_last' = [op |-> "diff_and_prune_db", raised |-> FALSE,
                       removed |-> (DOMAIN db.people \cup DOMAIN db.media)
                                    \ (DOMAIN db'.people \cup DOMAIN db'.media)]
    /\ UNCHANGED <<tx, PRES_UPSERTED, pres_sheet>>
    /\ UNCHANGED <<retryVars, pipeVars, auxVars>>

GlobalPruneDb ==
    /\ tx.step = "idle"
    /\ \E desired \in (SUBSET VoyageSlugs) \ {{}} : db' = GlobalPruneDbResult(db, desired)
    /\ db_last' = [op |-> "prune_voyages_missing", raised |-> FALSE]
    /\ UNCHANGED <<tx, PRES_UPSERTED, pres_sheet>>
    /\ UNCHANGED <<retryVars, pipeVars, auxVars>>

PresSheets == {{}, {"hst"}}
DbInit ==
    /\ db = EmptyDb
    /\ tx = NoTx
    /\ PRES_UPSERTED = FALSE
    /\ pres_sheet \in PresSheets
    /\ db_last = [op |-> "none", raised |-> FALSE]

DbNext ==
    \/ UpsertAllBegin
    \/ TxStatement
    \/ TxCommit
    \/ TxException
    \/ ResetPresidentsFromList
    \/ ResetPresidentsTable
    \/ DiffAndPruneDb
    \/ GlobalPruneDb

InitDb == DbInit /\ RetryIdle /\ PipeIdle /\ AuxIdle
SpecDb == InitDb /\ [][DbNext]_vars

(***************************************************************************)
(* Properties of the database writer                                       *)
(***************************************************************************)

(* C9: upsert_all runs one transaction per voyage. While it is open none of *)
(* its writes is visible in the committed tables; when a statement or the  *)
(* commit raises, the transaction is rolled back, so the committed tables  *)
(* are those from before the call, and the exception reaches the caller.   *)
C9_AtomicStep ==
    /\ (tx.step # "idle" /\ tx'.step # "idle" => db' = db)
    /\ (tx.step # "idle" /\ tx'.step = "idle" /\ db_last'.failed =>
            db' = tx.before /\ db_last'.raised)
C9_TransactionAtomic == [][C9_AtomicStep]_vars
C9_Witness ==
    /\ db_last.op = "upsert_all"
    /\ db_last.failed /\ db_last.raised /\ db_last.dirty
    /\ db_last.at = "people"
    /\ tx = NoTx

ResetOps == {"reset_presidents_table_from_list", "reset_presidents_table"}

(* C8: after a presidents reset every incoming president has a row; a      *)
(* president that had a row and is not incoming is deleted exactly when no *)
(* voyage references it; no presidents-reset operation removes a president *)
(* a voyage references.                                                    *)
C8_ResetStep ==
    (db_last'.op \in ResetOps /\ ~db_last'.raised) =>
        /\ db_last'.incoming \subseteq db'.presidents
        /\ \A p \in db.presidents \ db_last'.incoming :
              (p \notin db'.presidents) <=> ~Referenced(db, p)
        /\ \A p \in db.presidents : Referenced(db, p) => p \in db'.presidents
C8_PresidentsReset == [][C8_ResetStep]_vars

Ch(s, i) == SubSeq(s, i, i)
Rest(s) == SubSeq(s, 2, Len(s))
Chars(s) == {Ch(s, i) : i \in 1..Len(s)}
LowerCase == "abcdefghijklmnopqrstuvwxyz"
UpperCase == "ABCDEFGHIJKLMNOPQRSTUVWXYZ"
DigitChars == "0123456789"
Hyphen == {"-"}
\* str.strip() without argument strips white space
White == {" "}

\* str.isdigit() of one character, and the class [a-z0-9] of _slug_re (slugger.py:7)
DigitSet == Chars(DigitChars)
UpperSet == Chars(UpperCase)
SlugCharSet == Chars(LowerCase) \cup DigitSet
IsDigit(c) == c \in DigitSet
IsSlugChar(c) == c \in SlugCharSet

\* str.lower()
LowerCh(c) ==
    IF c \in UpperSet
    THEN Ch(LowerCase, CHOOSE i \in 1..Len(UpperCase) : Ch(UpperCase, i) = c)
    ELSE c
RECURSIVE Lower(_)
Lower(s) == IF s = "" THEN "" ELSE LowerCh(Ch(s, 1)) \o Lower(Rest(s))

\* str.lstrip(cs), str.rstrip(cs), str.strip(cs)
RECURSIVE LStrip(_, _)
LStrip(s, cs) == IF s # "" /\ Ch(s, 1) \in cs THEN LStrip(Rest(s), cs) ELSE s
RECURSIVE RStrip(_, _)
RStrip(s, cs) ==
    IF s # "" /\ Ch(s, Len(s)) \in cs THEN RStrip(SubSeq(s, 1, Len(s) - 1), cs) ELSE s
Strip(s, cs) == RStrip(LStrip(s, cs), cs)

\* str.startswith, str.endswith, "x in s"
StartsWith(s, p) == Len(p) <= Len(s) /\ SubSeq(s, 1, Len(p)) = p
EndsWith(s, p) == Len(p) <= Len(s) /\ SubSeq(s, Len(s) - Len(p) + 1, Len(s)) = p
Contains(s, p) == \E i \in 1..(Len(s) - Len(p) + 1) : SubSeq(s, i, i + Len(p) - 1) = p

\* the positions of the hyphens of s
HyphenAt(s) == {i \in 1..Len(s) : Ch(s, i) = "-"}
Min(S) == CHOOSE x \in S : \A y \in S : x <= y
Max(S) == CHOOSE x \in S : \A y \in S : x >= y

\* str.isdigit(): not empty, digits only
IsDigits(s) == s # "" /\ \A i \in 1..Len(s) : IsDigit(Ch(s, i))
\* int(s) of a string of digits
DigitValue(c) == (CHOOSE i \in 1..10 : Ch(DigitChars, i) = c) - 1
RECURSIVE IntOf(_)
IntOf(s) ==
    IF s = "" THEN 0 ELSE 10 * IntOf(SubSeq(s, 1, Len(s) - 1)) + DigitValue(Ch(s, Len(s)))
\* str(n) and f"{n:02d}" of a natural number
RECURSIVE DecStr(_)
DecStr(n) == IF n < 10 THEN Ch(DigitChars, n + 1) ELSE DecStr(n \div 10) \o Ch(DigitChars, (n % 10) + 1)
Format02d(n) == IF n < 10 THEN "0" \o DecStr(n) ELSE DecStr(n)

\* the strings over the characters cs of length at most n
RECURSIVE Texts(_, _)
Texts(cs, n) ==
    IF n = 0 THEN {""}
    ELSE LET shorter == Texts(cs, n - 1)
         IN  shorter \cup {s \o c : s \in {t \in shorter : Len(t) = n - 1}, c \in cs}

(***************************************************************************)
(* Slugger (slugger.py)                                                    *)
(***************************************************************************)

\* _slug_re.sub("-", s): every maximal run of characters outside [a-z0-9]
\* becomes one hyphen (slugger.py:7, 22, 27)
RECURSIVE SubNonSlug(_, _)
SubNonSlug(s, in_run) ==
    IF s = "" THEN ""
    ELSE IF IsSlugChar(Ch(s, 1)) THEN Ch(s, 1) \o SubNonSlug(Rest(s), FALSE)
    ELSE (IF in_run THEN "" ELSE "-") \o SubNonSlug(Rest(s), TRUE)

\* re.sub(r"-{2,}", "-", s) (slugger.py:28)
RECURSIVE CollapseHyphens(_)
CollapseHyphens(s) ==
    IF Len(s) < 2 THEN s
    ELSE IF Ch(s, 1) = "-" /\ Ch(s, 2) = "-" THEN CollapseHyphens(Rest(s))
    ELSE Ch(s, 1) \o CollapseHyphens(Rest(s))

\* _tokenize_date (slugger.py:9-23)
TokenizeDate(text) ==
    LET s == Lower(Strip(text, White))
    IN  IF s = "" THEN "undated"
        ELSE LET t == Strip(SubNonSlug(s, FALSE), Hyphen)
             IN  IF t = "" THEN "undated" ELSE t

\* slugify (slugger.py:25-29)
Slugify(text) ==
    LET s == CollapseHyphens(Strip(SubNonSlug(Lower(text), FALSE), Hyphen))
    IN  IF s = "" THEN "unknown" ELSE s

\* the alias table of normalize_source (slugger.py:36-43)
SourceAlias(s) ==
    CASE s = "white-house-photographer" -> "white-house"
      [] s = "natl-archives" -> "national-archives"
      [] OTHER -> s

\* normalize_source (slugger.py:31-44)
NormalizeSource(credit) ==
    LET raw == Strip(credit, White)
    IN  IF raw = "" THEN "unknown-source" ELSE SourceAlias(Slugify(raw))

(***************************************************************************)
(* Media step (drive_sync.py)                                              *)
(***************************************************************************)

\* an object of the store, and the two URL forms (drive_sync.py:174-178)
Obj(bucket, key) == [bucket |-> bucket, key |-> key]
S3Url(bucket, key) == [scheme |-> "s3", bucket |-> bucket, key |-> key]
PublicHttpUrl(bucket, key) == [scheme |-> "https", bucket |-> bucket, key |-> key]

\* media/{pres}/{source}/{vslug}/{mtype}/{mslug}.{ext} and ..._{kind}.jpg,
\* kept as the tuple of their parts (drive_sync.py:180-188)
S3KeyForOriginal(vslug, mslug, mtype, ext, credit) ==
    <<"media", PresidentOfVoyage(vslug), NormalizeSource(credit), vslug, mtype, mslug, "", ext>>
S3KeyForDerivative(vslug, mslug, mtype, credit, kind) ==
    <<"media", PresidentOfVoyage(vslug), NormalizeSource(credit), vslug, mtype, mslug, kind, "jpg">>

\* os.path.splitext(old_key)[1].lstrip(".") (line 266)
ExtOfKey(key) == IF key = <<>> THEN "" ELSE key[8]

\* the links of the documents: a Drive file, and a link of neither provider
MediaLinks == {"L1", "LX"}
LinkKind(link) == IF link = "L1" THEN "drive" ELSE "unsupported"
\* what the download finds behind a link: detect_media_type, guess_extension (147-167)
DetectedType(link) == "image"
GuessedExt(link) == "jpg"

NoObj == Obj("", <<>>)
LogOp(op, obj, src, ok) == [op |-> op, obj |-> obj, src |-> src, ok |-> ok]

\* what can go wrong at the remote services while one item is handled
Faults == {"none", "copy", "delete", "copy_deriv", "download", "put", "deriv"}

\* _media_link_map (lines 52-84): link -> the last media-tab row with that link;
\* without a spreadsheet id, or when the read fails, the empty map
LinkRows(rows, l) == {i \in 1..Len(rows) : rows[i].google_drive_link = l}
LastRow(rows, l) == rows[CHOOSE i \in LinkRows(rows, l) : \A j \in LinkRows(rows, l) : j <= i]
MediaLinkMap(spreadsheet_id, rows, read_ok) ==
    IF spreadsheet_id = "" \/ ~read_ok THEN EmptyMap
    ELSE [l \in {x \in MediaLinks : LinkRows(rows, x) # {}} |->
            [s3_url |-> LastRow(rows, l).s3_url,
             media_type |-> LastRow(rows, l).media_type,
             credit |-> LastRow(rows, l).credit,
             media_slug |-> LastRow(rows, l).media_slug,
             voyage_slug |-> ""]]

\* the DELETE of a moved object follows its COPY in the same try block, so it is
\* issued only when the COPY did not raise (lines 273-275, 286-295)
DeleteIssuedRegardless(copy_ok) == TRUE
DeleteIssued(copy_ok) == copy_ok

\* copy src to dst, then delete src, under one try (lines 273-275, 286-295)
MoveObject(st, src, dst, copy_fault, delete_fault) ==
    LET copy_ok == ~copy_fault /\ src \in st.s3
        afterCopy == [st EXCEPT !.s3 = IF copy_ok THEN @ \cup {dst} ELSE @,
                                !.log = Append(@, LogOp("COPY", dst, src, copy_ok))]
    IN  IF DeleteIssued(copy_ok)
        THEN [afterCopy EXCEPT !.s3 = IF delete_fault THEN @ ELSE @ \ {src},
                               !.log = Append(@, LogOp("DELETE", src, NoObj, ~delete_fault)),
                               !.moved = copy_ok /\ ~delete_fault]
        ELSE [afterCopy EXCEPT !.moved = FALSE]

Truthy(x, y) == IF x # "" THEN x ELSE y

\* the move branch of process_all_media (lines 254-301); .moved tells whether the
\* item is finished by it (continue) or falls through to the download
MoveExisting(st, m, vslug, existing, f) ==
    LET old_s3 == existing.s3_url
        is_s3 == old_s3.scheme = "s3"
        old_bucket == IF is_s3 THEN old_s3.bucket ELSE S3_PRIVATE_BUCKET
        old_key == IF is_s3 THEN old_s3.key ELSE <<>>
        mtype_current == Truthy(m.media_type, Truthy(existing.media_type, "other"))
        ext_for_new == Truthy(ExtOfKey(old_key), "bin")
        new_orig_key == S3KeyForOriginal(vslug, m.slug, mtype_current, ext_for_new, m.credit)
        vslug_old == Truthy(existing.voyage_slug, vslug)
        mtype_old == Truthy(existing.media_type, Truthy(mtype_current, "other"))
        OldDerivative(kind) ==
            <<"media", PresidentOfVoyage(vslug_old),
              NormalizeSource(Truthy(existing.credit, m.credit)), vslug_old, mtype_old,
              Truthy(existing.media_slug, m.slug), kind, "jpg">>
        new_prev == S3KeyForDerivative(vslug, m.slug, mtype_current, m.credit, "_preview")
        new_th == S3KeyForDerivative(vslug, m.slug, mtype_current, m.credit, "_thumb")
        st1 == MoveObject(st, Obj(old_bucket, old_key), Obj(S3_PRIVATE_BUCKET, new_orig_key),
                          f = "copy", f = "delete")
        st2 == MoveObject(st1, Obj(S3_PUBLIC_BUCKET, OldDerivative("_preview")),
                          Obj(S3_PUBLIC_BUCKET, new_prev), f = "copy_deriv", FALSE)
        st3 == MoveObject(st2, Obj(S3_PUBLIC_BUCKET, OldDerivative("_thumb")),
                          Obj(S3_PUBLIC_BUCKET, new_th), f = "copy_deriv", FALSE)
    IN  IF old_key = <<>> \/ new_orig_key = old_key THEN [st EXCEPT !.moved = FALSE]
        ELSE IF ~st1.moved THEN [st1 EXCEPT !.warnings = @ + 1]
        ELSE [st3 EXCEPT
                !.links = Upsert(@, m.slug,
                            [orig |-> S3Url(S3_PRIVATE_BUCKET, new_orig_key),
                             pub |-> PublicHttpUrl(S3_PUBLIC_BUCKET, new_prev)]),
                !.moved = TRUE]

\* download, PUT of the original, PUT of the derivatives of an image (lines 303-360)
DownloadAndUpload(st, m, vslug, f) ==
    LET link == m.google_drive_link
        mtype == Truthy(m.media_type, DetectedType(link))
        orig == Obj(S3_PRIVATE_BUCKET, S3KeyForOriginal(vslug, m.slug, mtype, GuessedExt(link), m.credit))
        prev_key == S3KeyForDerivative(vslug, m.slug, mtype, m.credit, "_preview")
        th_key == S3KeyForDerivative(vslug, m.slug, mtype, m.credit, "_thumb")
        put_ok == f # "put"
        deriv_ok == f # "deriv"
        st1 == [st EXCEPT !.s3 = IF put_ok THEN @ \cup {orig} ELSE @,
                          !.log = Append(@, LogOp("PUT", orig, NoObj, put_ok)),
                          !.warnings = IF put_ok THEN @ ELSE @ + 1]
        st2 == IF mtype # "image" THEN st1
               ELSE IF ~deriv_ok THEN [st1 EXCEPT !.warnings = @ + 1]
               ELSE [st1 EXCEPT
                        !.s3 = @ \cup {Obj(S3_PUBLIC_BUCKET, prev_key), Obj(S3_PUBLIC_BUCKET, th_key)},
                        !.log = @ \o <<LogOp("PUT", Obj(S3_PUBLIC_BUCKET, prev_key), NoObj, TRUE),
                                       LogOp("PUT", Obj(S3_PUBLIC_BUCKET, th_key), NoObj, TRUE)>>]
    IN  IF LinkKind(link) = "unsupported" \/ f = "download"
        THEN [st EXCEPT !.warnings = @ + 1,
                        !.links = Upsert(@, m.slug, [orig |-> NoUrl, pub |-> NoUrl])]
        ELSE [st2 EXCEPT
                !.links = Upsert(@, m.slug,
                    [orig |-> IF put_ok THEN S3Url(orig.bucket, orig.key) ELSE NoUrl,
                     pub |-> IF mtype = "image" /\ deriv_ok
                             THEN PublicHttpUrl(S3_PUBLIC_BUCKET, prev_key) ELSE NoUrl])]

\* one iteration of the loop of process_all_media (lines 241-360)
ProcessItem(st, m, vslug, link_map, f) ==
    IF m.slug = "" \/ m.google_drive_link = "" THEN [st EXCEPT !.warnings = @ + 1]
    ELSE LET link == m.google_drive_link
             tried == IF link \in DOMAIN link_map /\ link_map[link].s3_url # NoUrl
                      THEN MoveExisting([st EXCEPT !.moved = FALSE], m, vslug, link_map[link], f)
                      ELSE [st EXCEPT !.moved = FALSE]
         IN  IF tried.moved THEN tried ELSE DownloadAndUpload(tried, m, vslug, f)

(***************************************************************************)
(* Spreadsheet writer (sheets_updater.py)                                  *)
(***************************************************************************)

\* _upsert (lines 467-504): the first row holding the key is overwritten, else
\* the row is appended
KeyRows(rows, key_col, val) == {i \in 1..Len(rows) : rows[i][key_col] = val}
FirstRow(rows, key_col, val) ==
    CHOOSE i \in KeyRows(rows, key_col, val) : \A j \in KeyRows(rows, key_col, val) : i <= j
SheetUpsertAlwaysAppend(rows, key_col, row) == Append(rows, row)
SheetUpsert(rows, key_col, row) ==
    IF KeyRows(rows, key_col, row[key_col]) = {} THEN Append(rows, row)
    ELSE [rows EXCEPT ![FirstRow(rows, key_col, row[key_col])] = row]

\* _infer_sort_order (the trailing digits of the media slug)
InferSortOrder(m) == IF m \in MediaSlugs THEN 1 ELSE 0

RECURSIVE SheetPeople(_, _)
SheetPeople(rows, ppl) ==
    IF ppl = <<>> THEN rows
    ELSE IF Head(ppl).slug = "" \/ Head(ppl).full_name = "" THEN SheetPeople(rows, Tail(ppl))
    ELSE SheetPeople(SheetUpsert(rows, "person_slug",
                        [person_slug |-> Head(ppl).slug, full_name |-> Head(ppl).full_name]),
                     Tail(ppl))

RECURSIVE SheetMedia(_, _, _)
SheetMedia(rows, med, links) ==
    IF med = <<>> THEN rows
    ELSE IF Head(med).slug = "" THEN SheetMedia(rows, Tail(med), links)
    ELSE SheetMedia(SheetUpsert(rows, "media_slug",
                        [media_slug |-> Head(med).slug,
                         media_type |-> Head(med).media_type,
                         s3_url |-> LinkOf(links, Head(med).slug).orig,
                         thumbnail_s3_url |-> LinkOf(links, Head(med).slug).pub,
                         credit |-> Head(med).credit,
                         google_drive_link |-> Head(med).google_drive_link]),
                    Tail(med), links)

RECURSIVE SheetVP(_, _, _)
SheetVP(rows, v, ppl) ==
    IF ppl = <<>> THEN rows
    ELSE IF Head(ppl).slug = "" THEN SheetVP(rows, v, Tail(ppl))
    ELSE SheetVP(SheetUpsert(rows, "person_slug",
                    [voyage_slug |-> v, person_slug |-> Head(ppl).slug]), v, Tail(ppl))

RECURSIVE SheetVM(_, _, _)
SheetVM(rows, v, med) ==
    IF med = <<>> THEN rows
    ELSE IF Head(med).slug = "" THEN SheetVM(rows, v, Tail(med))
    ELSE SheetVM(SheetUpsert(rows, "media_slug",
                    [voyage_slug |-> v, media_slug |-> Head(med).slug,
                     sort_order |-> InferSortOrder(Head(med).slug)]), v, Tail(med))

\* update_all up to and including the voyages upsert (lines 702-746)
UpdateVoyageRow(sh, b) ==
    [sh EXCEPT !.voyages = SheetUpsert(@, "voyage_slug",
                    [voyage_slug |-> b.voyage.voyage_slug, title |-> b.voyage.title])]

\* update_all (lines 702-829)
UpdateAllResult(sh, b, links) ==
    [UpdateVoyageRow(sh, b) EXCEPT
        !.passengers = SheetPeople(@, b.passengers),
        !.media = SheetMedia(@, b.media, links),
        !.voyage_passengers = SheetVP(@, b.voyage.voyage_slug, b.passengers),
        !.voyage_media = SheetVM(@, b.voyage.voyage_slug, b.media)]

(***************************************************************************)
(* Reconciler on the spreadsheet and the object store, as the              *)
(* specification describes it (spec 4.9; reconciler.py is not in src/)     *)
(***************************************************************************)

\* per-voyage scope: join rows of the voyage whose key is not in the bundle go
DiffAndPruneSheetsResult(sh, b) ==
    [sh EXCEPT
        !.voyage_passengers = SelectSeq(@, LAMBDA r :
            ~(r.voyage_slug = b.voyage.voyage_slug /\ r.person_slug \notin BundlePeople(b))),
        !.voyage_media = SelectSeq(@, LAMBDA r :
            ~(r.voyage_slug = b.voyage.voyage_slug /\ r.media_slug \notin BundleMedia(b)))]

\* global scope: rows of voyages absent from the document go
GlobalPruneSheetResult(sh, desired) ==
    [sh EXCEPT
        !.voyages = SelectSeq(@, LAMBDA r : r.voyage_slug \in desired),
        !.voyage_passengers = SelectSeq(@, LAMBDA r : r.voyage_slug \in desired),
        !.voyage_media = SelectSeq(@, LAMBDA r : r.voyage_slug \in desired)]

\* the object store is never pruned, globally or per voyage (spec 4.5, 4.6, 4.9)
GlobalPruneS3Deleting(store, desired) == {o \in store : o.key[4] \in desired}
GlobalPruneS3Result(store, desired) == store
DiffAndPruneS3Deleting(store, b) == {o \in store : o.key[4] # b.voyage.voyage_slug}
DiffAndPruneS3Result(store, b) == store

(***************************************************************************)
(* Orchestrator (main.py)                                                  *)
(*                                                                         *)
(* main.py:71 binds the result of parser.parse_doc_multi, which in this    *)
(* source tree is the pair (presidents, bundles), to the name `bundles`    *)
(* and iterates over it as a list of bundles.  The model follows the loop  *)
(* body of main over the list of bundles the parser produces.              *)
(***************************************************************************)

Bundle(v, t, ppl, med) ==
    [voyage |-> [voyage_slug |-> v, title |-> t], passengers |-> ppl, media |-> med]

\* the documents of the runs
DocA == <<Bundle("v1", "t1", <<Passenger("p1")>>, <<MediaItem("v1-01", "L1")>>),
          Bundle("v2", "t1", <<Passenger("p1")>>, <<>>)>>
DocB == <<Bundle("v1", "t1", <<Passenger("p1")>>, <<MediaItem("v1-01", "L1")>>)>>
DocC == <<Bundle("v2", "t1", <<Passenger("p1")>>, <<MediaItem("v2-01", "L1")>>)>>
DocD == <<Bundle("v1", "t2", <<Passenger("p1"), Passenger("p2")>>, <<>>),
          Bundle("", "", <<>>, <<>>),
          Bundle("v2", "t1", <<Passenger("")>>, <<>>)>>
\* a voyage with a media link that is neither a Drive nor a Dropbox link
DocE == <<Bundle("v1", "t1", <<Passenger("p1")>>, <<MediaItem("v1-01", "LX")>>)>>
DocNone == <<>>
Docs == {DocA, DocB, DocC, DocD, DocE, DocNone}

\* SYNC_MODE, DRY_RUN, PRUNE_MASTERS (main.py:53-63)
Cfgs ==
    {[mode |-> "upsert", dry_run |-> FALSE, prune_masters |-> FALSE],
     [mode |-> "prune", dry_run |-> FALSE, prune_masters |-> FALSE],
     [mode |-> "prune", dry_run |-> FALSE, prune_masters |-> TRUE],
     [mode |-> "prune", dry_run |-> TRUE, prune_masters |-> FALSE]}

MaxRuns == 2

\* remote failures met by one run
MaxFaults == 1

\* desired_slugs (main.py:81-87)
DesiredSlugs(doc) == {doc[i].voyage.voyage_slug : i \in 1..Len(doc)} \ {""}

\* whether the global prune is run (main.py:80)
GlobalPruneNever(cfg) == FALSE
GlobalPruneRuns(cfg) == cfg.mode = "prune"

\* validator.validate_bundle, the number of its errors for the modelled fields:
\* required voyage_slug and title, supported media link, media slug of the voyage
RECURSIVE MediaErrors(_, _)
MediaErrors(med, v) ==
    IF med = <<>> THEN 0
    ELSE (IF Head(med).google_drive_link = "" THEN 1 ELSE 0)
       + (IF Head(med).google_drive_link # "" /\ LinkKind(Head(med).google_drive_link) = "unsupported"
          THEN 1 ELSE 0)
       + (IF Head(med).slug # "" /\ v # "" /\ VoyageOfMedia(Head(med).slug) # v THEN 1 ELSE 0)
       + MediaErrors(Tail(med), v)
ValidationErrors(b) ==
    (IF b.voyage.voyage_slug = "" THEN 1 ELSE 0) + (IF b.voyage.title = "" THEN 1 ELSE 0)
    + MediaErrors(b.media, b.voyage.voyage_slug)

\* _classify_status (main.py:34-39)
ClassifyStatus(validation_errors, media_errors) ==
    IF validation_errors > 0 THEN "ERROR"
    ELSE IF media_errors > 0 THEN "WITH_WARNINGS" ELSE "OK"

ZeroStats ==
    [s3_deleted |-> 0, s3_archived |-> 0, sheets_deleted_vm |-> 0, sheets_deleted_vp |-> 0,
     db_deleted_vm |-> 0, db_deleted_vp |-> 0, db_deleted_media |-> 0, db_deleted_people |-> 0]

\* a row of ingest_log (main.py:114-127, 184-198, 203-219)
LogRowOf(vslug, status, errors, warnings, declared, uploaded, thumbs, cfg, stats) ==
    [voyage_slug |-> vslug, status |-> status, errors_count |-> errors,
     warnings_count |-> warnings, media_declared |-> declared, media_uploaded |-> uploaded,
     thumbs_uploaded |-> thumbs, sync_mode |-> cfg.mode, dry_run |-> cfg.dry_run,
     stats |-> stats]

\* the record of a run; steps and failed keep, for the voyage in hand, the steps
\* already started and those that raised, logged whether ingest_log was written
NewRun(driver, doc, cfg, sid) ==
    [pc |-> "validate", driver |-> driver, doc |-> doc, idx |-> 1, cfg |-> cfg, sid |-> sid,
     mi |-> 1, links |-> EmptyMap, warnings |-> 0, stats |-> ZeroStats, gstats |-> ZeroStats,
     log_rows |-> <<>>, faults |-> 0, steps |-> <<>>, failed |-> {}, logged |-> FALSE]

Cur == run.doc[run.idx]

\* the next bundle of the loop, or the end of the loop (main.py:102, 200)
Advance(r) ==
    IF r.idx < Len(r.doc) THEN [r EXCEPT !.idx = @ + 1, !.pc = "validate"]
    ELSE [r EXCEPT !.pc = "finish"]

\* the successful PUT keys of the log of a run
PutKeys(log) == {log[i].obj : i \in {j \in 1..Len(log) : log[j].op = "PUT" /\ log[j].ok}}

\* upsert_all as one call: every statement in order, then the commit (db_updater.py:236-403)
UpsertAllRejected(b) == StmtRejected("people", b) \/ StmtRejected("media", b)
UpsertAllResult(d, b, links, flagged, sheetRows) ==
    StmtVoyageMedia(StmtVoyagePassengers(StmtMedia(StmtPeople(StmtVoyage(
        StmtPresidents(d, flagged, sheetRows), b, links), b, links), b, links), b, links), b, links)

\* main(): environment read, parse, early return without bundles (main.py:48-74)
RunStart ==
    /\ run.pc \in {"idle", "done", "aborted"}
    /\ tx.step = "idle"
    /\ start.n < MaxRuns
    /\ \E doc \in Docs : \E cfg \in Cfgs :
        run' = [NewRun("main", doc, cfg, "") EXCEPT
                    !.pc = IF doc = <<>> THEN "done"
                           ELSE IF GlobalPruneRuns(cfg) THEN "global_prune" ELSE "validate"]
    /\ prev' = IF run.pc = "done"
               THEN [ended |-> TRUE, doc |-> run.doc, cfg |-> run.cfg, clean |-> (run.faults = 0),
                     puts |-> PutKeys(s3_log)]
               ELSE NoPrev
    /\ start' = [taken |-> TRUE, n |-> start.n + 1, s3 |-> s3, db |-> db, sheet |-> sheet]
    /\ s3_log' = <<>>
    /\ MEDIA_CACHE' = [loaded |-> FALSE, map |-> EmptyMap]
    /\ PRES_UPSERTED' = FALSE
    /\ UNCHANGED <<s3, sheet, db, tx, pres_sheet, db_last>>
    /\ UNCHANGED <<retryVars, auxVars>>

\* reconciler.prune_voyages_missing_from_doc_with_set (main.py:80-95)
GlobalPrune ==
    /\ run.pc = "global_prune"
    /\ LET desired == DesiredSlugs(run.doc)
           d2 == IF run.cfg.dry_run THEN db ELSE GlobalPruneDbResult(db, desired)
           sh2 == IF run.cfg.dry_run THEN sheet ELSE GlobalPruneSheetResult(sheet, desired)
           st2 == IF run.cfg.dry_run THEN s3 ELSE GlobalPruneS3Result(s3, desired)
       IN  /\ db' = d2
           /\ sheet' = sh2
           /\ s3' = st2
           /\ run' = [run EXCEPT
                !.pc = "validate",
                !.gstats = [ZeroStats EXCEPT
                    !.s3_deleted = Cardinality(s3 \ st2),
                    !.sheets_deleted_vm =
                        (Len(sheet.voyages) - Len(sh2.voyages))
                        + (Len(sheet.voyage_media) - Len(sh2.voyage_media))
                        + (Len(sheet.voyage_passengers) - Len(sh2.voyage_passengers)),
                    !.db_deleted_vm = Cardinality(DOMAIN db.voyage_media \ DOMAIN d2.voyage_media),
                    !.db_deleted_vp =
                        Cardinality(DOMAIN db.voyage_passengers \ DOMAIN d2.voyage_passengers),
                    !.db_deleted_media = Cardinality(DOMAIN db.voyages \ DOMAIN d2.voyages)]]
    /\ UNCHANGED <<s3_log, MEDIA_CACHE, start, prev, tx, PRES_UPSERTED, pres_sheet, db_last>>
    /\ UNCHANGED <<retryVars, auxVars>>

\* "if errs:" (main.py:109): a bundle with validation errors is skipped
SkipsInvalidNever(errs) == FALSE
SkipsInvalid(errs) == errs > 0

\* validator.validate_bundle; on errors an ERROR row and the next voyage (main.py:107-128)
Validate ==
    /\ run.pc = "validate"
    /\ LET errs == ValidationErrors(Cur)
       IN  run' = IF SkipsInvalid(errs)
                  THEN Advance([run EXCEPT !.steps = <<>>, !.failed = {},
                            !.log_rows = Append(@,
                            LogRowOf(Cur.voyage.voyage_slug, "ERROR", errs, 0, Len(Cur.media),
                                     0, 0, run.cfg, ZeroStats))])
                  ELSE [run EXCEPT !.pc = "media_begin", !.mi = 1, !.links = EmptyMap,
                                   !.warnings = 0, !.stats = ZeroStats,
                                   !.steps = <<>>, !.failed = {}]
    /\ UNCHANGED <<s3, s3_log, sheet, MEDIA_CACHE, start, prev>>
    /\ UNCHANGED <<dbVars, retryVars, auxVars>>

\* process_all_media up to the loop: link_map = _media_link_map(spreadsheet_id)
\* (drive_sync.py:237-239); main passes no spreadsheet id (main.py:131-133)
MediaBegin ==
    /\ run.pc = "media_begin"
    /\ \E read_ok \in (IF run.sid = "" \/ MEDIA_CACHE.loaded \/ run.faults >= MaxFaults
                        THEN {TRUE} ELSE BOOLEAN) :
        /\ MEDIA_CACHE' = IF MEDIA_CACHE.loaded THEN MEDIA_CACHE
                          ELSE [loaded |-> TRUE,
                                map |-> MediaLinkMap(run.sid, sheet.media, read_ok)]
        /\ run' = [run EXCEPT !.pc = "media", !.faults = IF read_ok THEN @ ELSE @ + 1,
                              !.steps = Append(@, "media")]
    /\ UNCHANGED <<s3, s3_log, sheet, start, prev>>
    /\ UNCHANGED <<dbVars, retryVars, auxVars>>

\* one media item (drive_sync.py:241-360)
MediaItemStep ==
    /\ run.pc = "media"
    /\ run.mi <= Len(Cur.media)
    /\ \E f \in (IF run.faults < MaxFaults THEN Faults ELSE {"none"}) :
        LET st0 == [s3 |-> s3, log |-> s3_log, links |-> run.links,
                    warnings |-> run.warnings, moved |-> FALSE]
            st == ProcessItem(st0, Cur.media[run.mi], Cur.voyage.voyage_slug, MEDIA_CACHE.map, f)
            quiet == ProcessItem(st0, Cur.media[run.mi], Cur.voyage.voyage_slug,
                                 MEDIA_CACHE.map, "none")
        IN  /\ s3' = st.s3
            /\ s3_log' = st.log
            /\ run' = [run EXCEPT !.links = st.links, !.warnings = st.warnings,
                                  !.mi = @ + 1,
                                  !.faults = IF st = quiet THEN @ ELSE @ + 1]
    /\ UNCHANGED <<sheet, MEDIA_CACHE, start, prev>>
    /\ UNCHANGED <<dbVars, retryVars, auxVars>>

\* process_all_media returns (drive_sync.py:362; main.py:131-139)
MediaDone ==
    /\ run.pc = "media"
    /\ run.mi > Len(Cur.media)
    /\ run' = [run EXCEPT !.pc = IF run.driver = "direct" \/ run.cfg.mode = "prune"
                                 THEN "s3_prune" ELSE "sheets"]
    /\ UNCHANGED <<s3, s3_log, sheet, MEDIA_CACHE, start, prev>>
    /\ UNCHANGED <<dbVars, retryVars, auxVars>>

\* reconciler.diff_and_prune_s3 (main.py:137-146)
S3Prune ==
    /\ run.pc = "s3_prune"
    /\ LET st2 == IF run.cfg.dry_run THEN s3 ELSE DiffAndPruneS3Result(s3, Cur)
       IN  /\ s3' = st2
           /\ run' = [run EXCEPT !.pc = "sheets",
                                 !.steps = Append(@, "s3_prune"),
                                 !.stats.s3_deleted = Cardinality(s3 \ st2)]
    /\ UNCHANGED <<s3_log, sheet, MEDIA_CACHE, start, prev>>
    /\ UNCHANGED <<dbVars, retryVars, auxVars>>

\* what follows update_all: the join prune in prune mode, else the database
\* upsert (main.py:151-160); a direct call of the media step ends here
AfterSheetsUpdateSkipsPrune(r) == IF r.driver = "direct" THEN "done" ELSE "db_upsert"
AfterSheetsUpdate(r) ==
    IF r.driver = "direct" THEN "done"
    ELSE IF r.cfg.mode = "prune" THEN "sheets_prune" ELSE "db_upsert"

\* sheets_updater.update_all (main.py:148-149); an exception of a remote call is not
\* caught by main and ends the process, before or after the voyages row is written
SheetsUpdate ==
    /\ run.pc = "sheets"
    /\ \E f \in (IF run.faults < MaxFaults THEN {"none", "early", "late"} ELSE {"none"}) :
        /\ sheet' = CASE f = "none" -> UpdateAllResult(sheet, Cur, run.links)
                      [] f = "early" -> sheet
                      [] f = "late" -> UpdateVoyageRow(sheet, Cur)
        /\ run' = IF f # "none"
                  THEN [run EXCEPT !.pc = "aborted", !.faults = @ + 1,
                                   !.steps = Append(@, "sheets_upsert"),
                                   !.failed = @ \cup {"sheets_upsert"}]
                  ELSE [run EXCEPT !.pc = AfterSheetsUpdate(run),
                                   !.steps = Append(@, "sheets_upsert")]
    /\ UNCHANGED <<s3, s3_log, MEDIA_CACHE, start, prev>>
    /\ UNCHANGED <<dbVars, retryVars, auxVars>>

\* reconciler.diff_and_prune_sheets (main.py:151-156)
SheetsPrune ==
    /\ run.pc = "sheets_prune"
    /\ LET sh2 == IF run.cfg.dry_run THEN sheet ELSE DiffAndPruneSheetsResult(sheet, Cur)
       IN  /\ sheet' = sh2
           /\ run' = [run EXCEPT
                !.pc = "db_upsert",
                !.steps = Append(@, "sheets_prune"),
                !.stats.sheets_deleted_vm = Len(sheet.voyage_media) - Len(sh2.voyage_media),
                !.stats.sheets_deleted_vp =
                    Len(sheet.voyage_passengers) - Len(sh2.voyage_passengers)]
    /\ UNCHANGED <<s3, s3_log, MEDIA_CACHE, start, prev>>
    /\ UNCHANGED <<dbVars, retryVars, auxVars>>

\* db_updater.upsert_all inside try/except that only logs (main.py:158-162)
DbUpsert ==
    /\ run.pc = "db_upsert"
    /\ \E f \in (IF run.faults < MaxFaults THEN {"none", "connect", "statement"} ELSE {"none"}) :
        LET failed == f # "none" \/ UpsertAllRejected(Cur)
        IN  /\ db' = IF failed THEN db
                     ELSE UpsertAllResult(db, Cur, run.links, PRES_UPSERTED, pres_sheet)
            /\ PRES_UPSERTED' = (PRES_UPSERTED \/ f # "connect")
            /\ run' = [run EXCEPT !.pc = IF run.cfg.mode = "prune" THEN "db_prune" ELSE "log",
                                  !.steps = Append(@, "db_upsert"),
                                  !.failed = IF failed THEN @ \cup {"db_upsert"} ELSE @,
                                  !.faults = IF f = "none" THEN @ ELSE @ + 1]
    /\ UNCHANGED <<s3, s3_log, sheet, MEDIA_CACHE, start, prev, tx, pres_sheet, db_last>>
    /\ UNCHANGED <<retryVars, auxVars>>

\* reconciler.diff_and_prune_db (main.py:164-175)
DbPrune ==
    /\ run.pc = "db_prune"
    /\ LET d2 == IF run.cfg.dry_run THEN db
                 ELSE DiffAndPruneDbResult(db, Cur, run.cfg.prune_masters)
       IN  /\ db' = d2
           /\ run' = [run EXCEPT
                !.pc = "log",
                !.steps = Append(@, "db_prune"),
                !.stats.db_deleted_vm =
                    Cardinality(DOMAIN db.voyage_media \ DOMAIN d2.voyage_media),
                !.stats.db_deleted_vp =
                    Cardinality(DOMAIN db.voyage_passengers \ DOMAIN d2.voyage_passengers),
                !.stats.db_deleted_media = Cardinality(DOMAIN db.media \ DOMAIN d2.media),
                !.stats.db_deleted_people = Cardinality(DOMAIN db.people \ DOMAIN d2.people)]
    /\ UNCHANGED <<s3, s3_log, sheet, MEDIA_CACHE, start, prev, tx, PRES_UPSERTED, pres_sheet, db_last>>
    /\ UNCHANGED <<retryVars, auxVars>>

\* the voyage's ingest_log row (main.py:177-198)
LogVoyage ==
    /\ run.pc = "log"
    /\ run' = Advance([run EXCEPT !.log_rows = Append(@,
                LogRowOf(Cur.voyage.voyage_slug, ClassifyStatus(0, run.warnings), 0, run.warnings,
                    Len(Cur.media),
                    Cardinality({m \in DOMAIN run.links : run.links[m].orig # NoUrl}),
                    Cardinality({m \in DOMAIN run.links : run.links[m].pub # NoUrl}),
                    run.cfg, run.stats))])
    /\ UNCHANGED <<s3, s3_log, sheet, MEDIA_CACHE, start, prev>>
    /\ UNCHANGED <<dbVars, retryVars, auxVars>>

\* whether the [GLOBAL] row is logged (main.py:201)
GlobalRowNever(cfg) == FALSE
GlobalRowLogged(cfg) == cfg.mode = "prune"

\* the [GLOBAL] row in prune mode and append_ingest_log inside try/except
\* (main.py:200-232); ingest_log keeps the rows appended by the last run
Finish ==
    /\ run.pc = "finish"
    /\ \E ok \in (IF run.faults < MaxFaults THEN BOOLEAN ELSE {TRUE}) :
        LET rows == IF GlobalRowLogged(run.cfg)
                    THEN Append(run.log_rows,
                            LogRowOf("[GLOBAL]", "OK", 0, 0, 0, 0, 0, run.cfg, run.gstats))
                    ELSE run.log_rows
        IN  /\ sheet' = [sheet EXCEPT !.ingest_log = IF ok THEN rows ELSE <<>>]
            /\ run' = [run EXCEPT !.pc = "done", !.log_rows = rows, !.logged = ok,
                                  !.faults = IF ok THEN @ ELSE @ + 1]
    /\ UNCHANGED <<s3, s3_log, MEDIA_CACHE, start, prev>>
    /\ UNCHANGED <<dbVars, retryVars, auxVars>>

PipeInit ==
    /\ s3 = {}
    /\ s3_log = <<>>
    /\ sheet = EmptySheet
    /\ MEDIA_CACHE = [loaded |-> FALSE, map |-> EmptyMap]
    /\ run = NoRun
    /\ start = NoSnapshot
    /\ prev = NoPrev

Init == PipeInit /\ DbInit /\ RetryIdle /\ AuxIdle

Next ==
    \/ RunStart
    \/ GlobalPrune
    \/ Validate
    \/ MediaBegin
    \/ MediaItemStep
    \/ MediaDone
    \/ S3Prune
    \/ SheetsUpdate
    \/ SheetsPrune
    \/ DbUpsert
    \/ DbPrune
    \/ LogVoyage
    \/ Finish

Spec == Init /\ [][Next]_vars

(***************************************************************************)
(* The media step called with a spreadsheet id                             *)
(***************************************************************************)

\* a passenger entry with a slug and no full_name, which validate_bundle
\* lets through (validator.py:189-199)
Nameless(p) == [slug |-> p, full_name |-> ""]
\* bundles handed to process_all_media directly
MediaBundles ==
    {Bundle("v1", "t1", <<>>, <<MediaItem("v1-01", "L1")>>),
     Bundle("v2", "t1", <<Nameless("p1")>>, <<MediaItem("v2-01", "L1")>>),
     Bundle("v1", "t1", <<>>, <<[MediaItem("v1-01", "L1") EXCEPT !.media_type = ""]>>),
     Bundle("v1", "t1", <<>>, <<MediaItem("v1-01", "LX"), MediaItem("", "L1")>>),
     Bundle("v1", "t1", <<>>, <<MediaItem("v1-01", "L1"), MediaItem("v1-02", "L1")>>)}

MaxCalls == 3

\* process_all_media(media_items, voyage_slug, spreadsheet_id) (drive_sync.py:227),
\* in the same process as the call before or in a new one; its results are then
\* written by update_all as in main
DirectCall ==
    /\ run.pc \in {"idle", "done", "aborted"}
    /\ start.n < MaxCalls
    /\ \E b \in MediaBundles : \E sid \in {"", "sheet"} :
        run' = [NewRun("direct", <<b>>, NoCfg, sid) EXCEPT !.pc = "media_begin"]
    /\ \E fresh \in BOOLEAN :
        MEDIA_CACHE' = IF fresh THEN [loaded |-> FALSE, map |-> EmptyMap] ELSE MEDIA_CACHE
    /\ start' = [taken |-> TRUE, n |-> start.n + 1, s3 |-> s3, db |-> db, sheet |-> sheet]
    /\ s3_log' = <<>>
    /\ UNCHANGED <<s3, sheet, prev>>
    /\ UNCHANGED <<dbVars, retryVars, auxVars>>

InitMedia == PipeInit /\ DbIdle /\ RetryIdle /\ AuxIdle

MediaNext ==
    \/ DirectCall
    \/ MediaBegin
    \/ MediaItemStep
    \/ MediaDone
    \/ S3Prune
    \/ SheetsUpdate

SpecMedia == InitMedia /\ [][MediaNext]_vars

(***************************************************************************)
(* Properties of the media step and of the runs                            *)
(***************************************************************************)

RunDone == run.pc = "done"
RunOver == run.pc \in {"done", "aborted"}

\* the key process_all_media computes for an item that it uploads
CanonicalKey(b, m) ==
    S3KeyForOriginal(b.voyage.voyage_slug, m.slug,
                     Truthy(m.media_type, DetectedType(m.google_drive_link)),
                     GuessedExt(m.google_drive_link), m.credit)
DerivativeOf(key, kind) == [key EXCEPT ![7] = kind, ![8] = "jpg"]
DerivativeKinds == {"_preview", "_thumb"}

\* the item's link is in the media tab, at the start of the run, with an s3_url
\* of another key than the item's canonical key, and the object is in the store
Rekeyed(b, m) ==
    /\ m.slug # "" /\ m.google_drive_link # ""
    /\ ValidationErrors(b) = 0
    /\ LinkRows(start.sheet.media, m.google_drive_link) # {}
    /\ LET old == LastRow(start.sheet.media, m.google_drive_link).s3_url
       IN  /\ old.scheme = "s3"
           /\ old.key # CanonicalKey(b, m)
           /\ Obj(old.bucket, old.key) \in start.s3

(* C1: after a run without remote failure, for every media item whose link *)
(* was in the media tab with an s3_url of another key than its canonical   *)
(* key, the original is at the new key and not at the old key, and each    *)
(* old derivative that existed is at the new derivative key and not at the *)
(* old one.                                                                *)
C1_MoveOnRename ==
    (RunDone /\ run.faults = 0) =>
        \A i \in 1..Len(run.doc) : \A j \in 1..Len(run.doc[i].media) :
            LET b == run.doc[i]
                m == b.media[j]
                old == LastRow(start.sheet.media, m.google_drive_link).s3_url
                new == CanonicalKey(b, m)
            IN  Rekeyed(b, m) =>
                    /\ Obj(S3_PRIVATE_BUCKET, new) \in s3
                    /\ Obj(old.bucket, old.key) \notin s3
                    /\ \A kind \in DerivativeKinds :
                          Obj(S3_PUBLIC_BUCKET, DerivativeOf(old.key, kind)) \in start.s3 =>
                            /\ Obj(S3_PUBLIC_BUCKET, DerivativeOf(new, kind)) \in s3
                            /\ Obj(S3_PUBLIC_BUCKET, DerivativeOf(old.key, kind)) \notin s3

SheetVoyages(sh) == {sh.voyages[i].voyage_slug : i \in 1..Len(sh.voyages)}
\* the voyage rows of the database and the spreadsheet that the document of the
\* run does not name
StaleAtStart ==
    (DOMAIN start.db.voyages \cup SheetVoyages(start.sheet)) \ DesiredSlugs(run.doc)

SecondRunUnchanged ==
    /\ RunDone /\ run.driver = "main"
    /\ prev.ended /\ prev.doc = run.doc /\ prev.cfg = run.cfg
    /\ prev.clean /\ run.faults = 0

DataTabs(sh) == [sh EXCEPT !.ingest_log = <<>>]

VoyageCountersZero(row) ==
    /\ row.errors_count = 0 /\ row.warnings_count = 0
    /\ row.media_declared = 0 /\ row.media_uploaded = 0 /\ row.thumbs_uploaded = 0
    /\ row.stats = ZeroStats

InMain == run.pc # "idle" /\ run.driver = "main"

\* the place of a step among the steps started for the voyage, 0 if not started
StepPos(steps, name) ==
    IF \E i \in 1..Len(steps) : steps[i] = name
    THEN CHOOSE i \in 1..Len(steps) : steps[i] = name
    ELSE 0
\* the steps that were started were started in the given order
InOrder(steps, order) ==
    \A i, j \in 1..Len(order) :
        (i < j /\ StepPos(steps, order[i]) > 0 /\ StepPos(steps, order[j]) > 0)
            => StepPos(steps, order[i]) < StepPos(steps, order[j])

FirstVoyageInHand ==
    InMain /\ run.idx = 1
           /\ run.pc \in {"validate", "media_begin", "media", "s3_prune", "sheets",
                          "sheets_prune", "db_upsert"}

(* C14: whenever a run validates its first voyage or writes it to a store, *)
(* the write of the presidents registry of that run has been completed.    *)
C14_PresidentsResetFirst == FirstVoyageInHand => PRES_UPSERTED

(* C15: a run of main on a document with voyages stops only after every    *)
(* voyage of the document has been processed and has its log row, whatever *)
(* failed on the way.                                                      *)
C15_FailuresDoNotAbort ==
    (InMain /\ RunOver /\ run.doc # <<>>) =>
        (run.pc = "done" /\ Len(run.log_rows) >= Len(run.doc))

\* the log row of the voyage in hand has just been appended
VoyageJustLogged ==
    InMain /\ run.pc \in {"validate", "finish"} /\ run.steps # <<>>

(* C16: the log row of a voyage whose spreadsheet upsert or database       *)
(* upsert failed has status ERROR, never OK or WITH_WARNINGS.              *)
C16_FailedVoyageLoggedError ==
    (VoyageJustLogged /\ run.failed # {}) =>
        run.log_rows[Len(run.log_rows)].status = "ERROR"

\* a step of main on a voyage whose bundle has validation errors
C17_SkipStep ==
    (InMain /\ run.pc = "validate" /\ ValidationErrors(Cur) > 0 /\ run' # run) =>
        /\ s3' = s3 /\ s3_log' = s3_log /\ sheet' = sheet /\ db' = db
        /\ Len(run'.log_rows) = Len(run.log_rows) + 1
        /\ run'.log_rows = Append(run.log_rows, run'.log_rows[Len(run'.log_rows)])
        /\ run'.log_rows[Len(run'.log_rows)].status = "ERROR"
        /\ run'.log_rows[Len(run'.log_rows)].voyage_slug = Cur.voyage.voyage_slug
        /\ run'.steps = <<>>
        /\ IF run.idx < Len(run.doc)
           THEN run'.pc = "validate" /\ run'.idx = run.idx + 1
           ELSE run'.pc = "finish"

LogStatuses == {"OK", "WITH_WARNINGS", "ERROR"}
\* rows i..j of ingest_log are the rows of the voyages of the document, in order
VoyageRows(rows, doc) ==
    /\ Len(rows) >= Len(doc)
    /\ \A i \in 1..Len(doc) :
          /\ rows[i].voyage_slug = doc[i].voyage.voyage_slug
          /\ rows[i].voyage_slug # "[GLOBAL]"
    /\ \A i \in 1..Len(rows) : rows[i].status \in LogStatuses

C19_ItemStep ==
    (run.pc = "media" /\ run'.pc = "media" /\ run'.mi # run.mi) =>
        /\ run'.mi = run.mi + 1
        /\ run'.faults > run.faults => run'.warnings > run.warnings

\* the writes of the voyage in hand are done
VoyageWritten ==
    /\ run.pc # "idle"
    /\ IF run.driver = "main" THEN run.pc = "log" ELSE run.pc = "done"

\* the media items of the voyage for which the media step returned no URL at all
WithoutBytes ==
    {i \in 1..Len(Cur.media) :
        /\ Cur.media[i].slug \in DOMAIN run.links
        /\ run.links[Cur.media[i].slug] = [orig |-> NoUrl, pub |-> NoUrl]}

C19_Downstream ==
    VoyageWritten =>
        \A i \in WithoutBytes :
            LET m == Cur.media[i].slug
            IN  /\ KeyRows(sheet.media, "media_slug", m) # {}
                /\ sheet.media[FirstRow(sheet.media, "media_slug", m)].s3_url = NoUrl
                /\ sheet.media[FirstRow(sheet.media, "media_slug", m)].thumbnail_s3_url = NoUrl
                /\ (run.driver = "main" /\ "db_upsert" \notin run.failed) =>
                      /\ m \in DOMAIN db.media
                      /\ db.media[m].s3_url = NoUrl
                      /\ db.media[m].public_derivative_url = NoUrl

(* C19: the media step never stops on a failing item: every item whose     *)
(* download, upload, copy or derivative failed adds a warning and the next *)
(* item is processed; an item for which no URL was obtained has its media  *)
(* row in the spreadsheet and in the database, with empty s3_url and       *)
(* public URL.                                                             *)
C19_MediaDegradesGracefully == [][C19_ItemStep]_vars /\ []C19_Downstream

\* the voyages of the document, valid but for a media link of neither provider
UnsupportedLinkOnly(b) ==
    /\ b.voyage.voyage_slug # "" /\ b.voyage.title # ""
    /\ \E j \in 1..Len(b.media) : LinkKind(b.media[j].google_drive_link) = "unsupported"
    /\ \A j \in 1..Len(b.media) :
          /\ b.media[j].slug # "" /\ b.media[j].google_drive_link # ""
          /\ VoyageOfMedia(b.media[j].slug) = b.voyage.voyage_slug

(* C20: at the end of a run without remote failure, a voyage that is valid *)
(* but for a media link that is neither a Drive nor a Dropbox link has a   *)
(* log row with status WITH_WARNINGS, its voyage row is in the spreadsheet *)
(* and the database, and the media item's rows have empty s3_url and       *)
(* public URL.                                                             *)
C20_UnsupportedLinkIsWarning ==
    (InMain /\ RunDone /\ run.faults = 0) =>
        \A i \in 1..Len(run.doc) :
            UnsupportedLinkOnly(run.doc[i]) =>
                /\ run.log_rows[i].status = "WITH_WARNINGS"
                /\ run.doc[i].voyage.voyage_slug \in SheetVoyages(sheet)
                /\ run.doc[i].voyage.voyage_slug \in DOMAIN db.voyages
                /\ \A j \in 1..Len(run.doc[i].media) :
                      LinkKind(run.doc[i].media[j].google_drive_link) = "unsupported" =>
                        LET m == run.doc[i].media[j].slug
                        IN  /\ m \in DOMAIN db.media
                            /\ db.media[m].s3_url = NoUrl
                            /\ db.media[m].public_derivative_url = NoUrl

\* generate_media_slugs (slugger.py:46-64): the items with their slugs filled in,
\* counters being the dict of the counters so far
RECURSIVE GenerateMediaSlugsFrom(_, _, _)
GenerateMediaSlugsFrom(items, voyage_slug, counters) ==
    IF items = <<>> THEN <<>>
    ELSE LET m == Head(items)
         IN  IF m.slug # ""
             THEN <<m>> \o GenerateMediaSlugsFrom(Tail(items), voyage_slug, counters)
             ELSE LET date_token == TokenizeDate(m.date)
                      src == NormalizeSource(m.credit)
                      key == <<date_token, src, voyage_slug>>
                      n == (IF key \in DOMAIN counters THEN counters[key] ELSE 0) + 1
                      nn == Format02d(n)
                  IN  <<[m EXCEPT !.source_slug = src,
                                  !.slug = date_token \o "-" \o src \o "-" \o voyage_slug
                                           \o "-" \o nn]>>
                      \o GenerateMediaSlugsFrom(Tail(items), voyage_slug, Upsert(counters, key, n))
GenerateMediaSlugs(items, voyage_slug) ==
    GenerateMediaSlugsFrom(items, voyage_slug, [k \in {} |-> 0])

(***************************************************************************)
(* Calls of the functions of the slugger, the parser and the validator:    *)
(* a call is drawn with its arguments and then returns.                    *)
(***************************************************************************)

Pending(fn, args) == [fn |-> fn, args |-> args, done |-> FALSE]
Returned(c, ret) == [fn |-> c.fn, args |-> c.args, done |-> TRUE, ret |-> ret]
Done(fn) == call.fn = fn /\ call.done

\* sequences over S of length at most n
SeqsUpTo(S, n) == UNION {[1..k -> S] : k \in 0..n}

\* the media entries of a document, as the parser's dicts: free-text date and
\* credit, and the slug the document may give
MaxItems == 3
MediaDates == {"", "1933", "1933 a"}
MediaCredits == {"b", "a b"}
PresetSlugs == {"", "p-01"}
RawMedia == [slug : PresetSlugs, date : MediaDates, credit : MediaCredits, source_slug : {""}]
SlugVoyage == "1933-04-23-fdr-trip"
GenerateCalls ==
    {Pending("generate_media_slugs", [items |-> q, voyage_slug |-> SlugVoyage]) :
        q \in SeqsUpTo(RawMedia, MaxItems)}

CallGenerateMediaSlugs ==
    /\ call.fn = "generate_media_slugs" /\ ~call.done
    /\ call' = Returned(call, GenerateMediaSlugs(call.args.items, call.args.voyage_slug))
    /\ UNCHANGED <<retryVars, dbVars, pipeVars, tabVars>>
(***************************************************************************)
(* Parser (parser.py): parse_doc_multi over the sections of the document.  *)
(* A dict of the parser is a function from its keys to their values.       *)
(***************************************************************************)

\* d.get(k) or "", and d.setdefault(k, v)
Get(d, k) == IF k \in DOMAIN d THEN d[k] ELSE ""
SetDefault(d, k, v) == IF k \in DOMAIN d THEN d ELSE Upsert(d, k, v)
EmptyDict == [k \in {} |-> ""]
\* None, and a dict in hand
None == [some |-> FALSE, d |-> EmptyDict]
Some(d) == [some |-> TRUE, d |-> d]

\* str.split() and " ".join(words)
RECURSIVE SplitWords(_, _)
SplitWords(s, cur) ==
    IF s = "" THEN (IF cur = "" THEN <<>> ELSE <<cur>>)
    ELSE IF Ch(s, 1) \in White
         THEN (IF cur = "" THEN <<>> ELSE <<cur>>) \o SplitWords(Rest(s), "")
         ELSE SplitWords(Rest(s), cur \o Ch(s, 1))
RECURSIVE JoinWith(_, _)
JoinWith(ws, sep) ==
    IF ws = <<>> THEN ""
    ELSE IF Len(ws) = 1 THEN ws[1] ELSE ws[1] \o sep \o JoinWith(Tail(ws), sep)

\* _first_nonempty (parser.py:147-148)
FirstNonempty(s) == Strip(s, White)

\* _ensure_pres_slug (parser.py:150-158)
EnsurePresSlug(p) ==
    IF FirstNonempty(Get(p, "president_slug")) # "" THEN FirstNonempty(Get(p, "president_slug"))
    ELSE IF FirstNonempty(Get(p, "full_name")) # "" THEN Slugify(FirstNonempty(Get(p, "full_name")))
    ELSE "unknown-president"

\* _descriptor_from_title (parser.py:160-164)
DescriptorFromTitle(title, max_words) ==
    LET words == SplitWords(Strip(title, White), "")
    IN  IF words = <<>> THEN "voyage"
        ELSE Slugify(JoinWith(SubSeq(words, 1, Min({max_words, Len(words)})), " "))

\* sheet_pres_map.get(name.lower(), slugify(name)) (parser.py:246, 275)
MappedPresSlug(sheet_pres_map, name) ==
    IF Lower(name) \in DOMAIN sheet_pres_map THEN sheet_pres_map[Lower(name)] ELSE Slugify(name)

\* the locals of parse_doc_multi (parser.py:224-230)
ParserStart ==
    [presidents |-> <<>>, bundles |-> <<>>, current_pres |-> None, current_voyage |-> None,
     current_passengers |-> <<>>, current_media |-> <<>>]

\* the voyage inherits the president in hand (parser.py:237-240, 292-295)
WithPresident(v, current_pres) ==
    IF current_pres.some /\ DOMAIN current_pres.d # {}
    THEN SetDefault(SetDefault(v, "president", Get(current_pres.d, "full_name")),
                    "president_slug", EnsurePresSlug(current_pres.d))
    ELSE v
\* pres_slug of _flush_voyage (parser.py:244-247): mapped from the president's
\* name when the voyage carries no president_slug
SlugIsMapped(v) == FirstNonempty(Get(v, "president_slug")) = "" /\ Get(v, "president") # ""
VoyagePresSlug(v, sheet_pres_map) ==
    IF SlugIsMapped(v) THEN MappedPresSlug(sheet_pres_map, Get(v, "president"))
    ELSE FirstNonempty(Get(v, "president_slug"))
WithPresSlug(v, sheet_pres_map) ==
    IF SlugIsMapped(v) THEN Upsert(v, "president_slug", VoyagePresSlug(v, sheet_pres_map)) ELSE v
\* voyage_slug = f"{sd}-{pres_slug}-{descriptor}" (parser.py:249-251)
WithVoyageSlug(v, sd, pres_slug, title) ==
    IF sd # "" /\ pres_slug # "" /\ title # ""
    THEN Upsert(v, "voyage_slug", sd \o "-" \o pres_slug \o "-" \o DescriptorFromTitle(title, 5))
    ELSE v
FlushedVoyage(v, sheet_pres_map) ==
    WithVoyageSlug(WithPresSlug(v, sheet_pres_map), FirstNonempty(Get(v, "start_date")),
                   VoyagePresSlug(v, sheet_pres_map), FirstNonempty(Get(v, "title")))

\* _flush_voyage (parser.py:232-261)
FlushVoyage(st, sheet_pres_map) ==
    IF ~st.current_voyage.some \/ DOMAIN st.current_voyage.d = {} THEN st
    ELSE [st EXCEPT !.bundles =
                        Append(@, [voyage |-> FlushedVoyage(WithPresident(st.current_voyage.d,
                                                                          st.current_pres),
                                                            sheet_pres_map),
                                   passengers |-> st.current_passengers,
                                   media |-> st.current_media]),
                    !.current_voyage = None,
                    !.current_passengers = <<>>,
                    !.current_media = <<>>]

\* the president of a "President" section (parser.py:266-281)
NamedIn(pdata) ==
    FirstNonempty(IF Get(pdata, "full_name") # "" THEN Get(pdata, "full_name")
                  ELSE IF Get(pdata, "name") # "" THEN Get(pdata, "name")
                  ELSE Get(pdata, "president"))
SectionPresSlug(full_name, given, sheet_pres_map) ==
    IF given = "" /\ full_name # "" THEN MappedPresSlug(sheet_pres_map, full_name) ELSE given
PresidentDict(full_name, pres_slug) ==
    [k \in {"president_slug", "full_name"} |->
        IF k = "full_name" THEN full_name
        ELSE IF pres_slug = "" THEN "unknown-president" ELSE pres_slug]
PresidentIn(pdata, sheet_pres_map) ==
    PresidentDict(NamedIn(pdata),
                  SectionPresSlug(NamedIn(pdata), FirstNonempty(Get(pdata, "president_slug")),
                                  sheet_pres_map))
\* current_pres = pres, appended to presidents unless its slug is there
\* (parser.py:282-287)
EnterPresident(st, pres) ==
    [st EXCEPT !.current_pres = Some(pres),
               !.presidents =
                    IF \E i \in 1..Len(st.presidents) :
                          st.presidents[i]["president_slug"] = pres["president_slug"]
                    THEN @ ELSE Append(@, pres)]
\* the "President" branch of the loop (parser.py:264-287)
PresidentSection(st0, pdata, sheet_pres_map) ==
    EnterPresident(FlushVoyage(st0, sheet_pres_map), PresidentIn(pdata, sheet_pres_map))

\* current_voyage = the section's dict with the president in hand
EnterVoyage(st, v) == [st EXCEPT !.current_voyage = Some(WithPresident(v, st.current_pres))]
\* the "Voyage" branch (parser.py:289-297)
VoyageSection(st0, v, sheet_pres_map) == EnterVoyage(FlushVoyage(st0, sheet_pres_map), v)

\* the "Passengers" and "Media" branches (parser.py:299-320)
PassengersSection(st, block) ==
    IF ~st.current_voyage.some THEN st ELSE [st EXCEPT !.current_passengers = block]
MediaSection(st, block) ==
    IF ~st.current_voyage.some THEN st ELSE [st EXCEPT !.current_media = block]

\* the loop over the sections and the tail flush (parser.py:263-326)
RECURSIVE ParseSections(_, _, _)
ParseSections(sections, st, sheet_pres_map) ==
    IF sections = <<>> THEN FlushVoyage(st, sheet_pres_map)
    ELSE LET s == Head(sections)
             next == CASE s.name = "President" -> PresidentSection(st, s.kv, sheet_pres_map)
                       [] s.name = "Voyage" -> VoyageSection(st, s.kv, sheet_pres_map)
                       [] s.name = "Passengers" -> PassengersSection(st, s.entries)
                       [] OTHER -> MediaSection(st, s.entries)
         IN  ParseSections(Tail(sections), next, sheet_pres_map)
ParseDocMulti(sections, sheet_pres_map) ==
    LET st == ParseSections(sections, ParserStart, sheet_pres_map)
    IN  [presidents |-> st.presidents, bundles |-> st.bundles]

\* the sections of the documents parsed: two presidents, voyages of one day
\* whose titles are equal, differ in punctuation or differ in words, a voyage
\* without title, a voyage section without fields, a voyage that names its
\* president, a passengers block and media blocks with and without a slug
Section(name, kv, entries) == [name |-> name, kv |-> kv, entries |-> entries]
VoyageKv(sd, title) ==
    [k \in {"start_date", "title"} |-> IF k = "start_date" THEN sd ELSE title]
\* a voyage block that names its president itself
VoyageOf(president) ==
    [k \in {"start_date", "title", "president"} |->
        IF k = "start_date" THEN "1945-05-01" ELSE IF k = "title" THEN "Cruise" ELSE president]
MediaEntry(slug) == [slug |-> slug, date |-> "1933-04-23", credit |-> "White House", source_slug |-> ""]
DocSections ==
    {Section("President", [k \in {"full_name"} |-> "F D"], <<>>)}
    \cup {Section("Voyage", VoyageKv("1933-04-23", t), <<>>) : t \in {"Trip", "Trip!", "Sea Trip", ""}}
    \cup {Section("Media", EmptyDict, <<MediaEntry(s)>>) :
            s \in {"", "1933-04-23-white-house-1933-04-23-fdr-trip-01"}}
    \cup {Section("Passengers", EmptyDict, <<[slug |-> "doe-jane", full_name |-> "Jane Doe"]>>)}
    \cup {Section("President", [k \in {"full_name"} |-> "H T"], <<>>)}
    \cup {Section("Voyage", EmptyDict, <<>>), Section("Voyage", VoyageOf("H T"), <<>>)}
MaxSections == 4
\* the full_name -> president_slug map read from the presidents tab (parser.py:166-196)
PresMaps == {EmptyDict, [k \in {"f d"} |-> "fdr"]}
ParseCalls ==
    {Pending("parse_doc_multi", [sections |-> q, sheet_pres_map |-> pm]) :
        q \in SeqsUpTo(DocSections, MaxSections), pm \in PresMaps}

CallParseDocMulti ==
    /\ call.fn = "parse_doc_multi" /\ ~call.done
    /\ call' = Returned(call, ParseDocMulti(call.args.sections, call.args.sheet_pres_map))
    /\ UNCHANGED <<retryVars, dbVars, pipeVars, tabVars>>

(***************************************************************************)
(* Validator (validator.py): the voyage_slug rule of validate_bundle.      *)
(***************************************************************************)

\* the class [a-z0-9-] of VOYAGE_SLUG_CAPTURE_RE
SlugOrHyphen == SlugCharSet \cup Hyphen
\* ^(\d{4}-\d{2}-\d{2})- : ten characters of date and a hyphen
HasDatePrefix(s) ==
    /\ Len(s) >= 11
    /\ \A i \in {1, 2, 3, 4, 6, 7, 9, 10} : IsDigit(Ch(s, i))
    /\ \A i \in {5, 8, 11} : Ch(s, i) = "-"
\* the hyphens of the rest at which ([a-z0-9-]+)-([a-z0-9-]+)$ can split it:
\* both groups take at least one character
SplitPoints(rest) == {k \in HyphenAt(rest) : k >= 2 /\ k <= Len(rest) - 1}
\* VOYAGE_SLUG_CAPTURE_RE.match(vslug) and m.groups() (validator.py:17, 169,
\* 173): the second group is greedy and takes up to the last split point
VoyageSlugCapture(vslug) ==
    LET rest == SubSeq(vslug, 12, Len(vslug))
    IN  IF /\ HasDatePrefix(vslug)
           /\ \A i \in 1..Len(rest) : Ch(rest, i) \in SlugOrHyphen
           /\ SplitPoints(rest) # {}
        THEN LET k == Max(SplitPoints(rest))
             IN  [matched |-> TRUE, date_part |-> SubSeq(vslug, 1, 10),
                  president_part |-> SubSeq(rest, 1, k - 1),
                  descriptor |-> SubSeq(rest, k + 1, Len(rest))]
        ELSE [matched |-> FALSE, date_part |-> "", president_part |-> "", descriptor |-> ""]

\* expected_slug (validator.py:180-181)
ExpectedSlug(v, full_to_slug) ==
    LET pres_full == Lower(Strip(Get(v, "president"), White))
    IN  IF pres_full \in DOMAIN full_to_slug THEN full_to_slug[pres_full]
        ELSE IF pres_full # "" THEN Slugify(pres_full) ELSE ""

\* the errors validate_bundle appends for voyage_slug (validator.py:167-186),
\* by kind
ValidateVoyageSlug(v, full_to_slug, allowed_presidents) ==
    LET vslug == Strip(Get(v, "voyage_slug"), White)
        m == VoyageSlugCapture(vslug)
        sd == SubSeq(Get(v, "start_date"), 1, Min({10, Len(Get(v, "start_date"))}))
        expected_slug == ExpectedSlug(v, full_to_slug)
    IN  IF vslug = "" THEN {}
        ELSE IF ~m.matched THEN {"format"}
        ELSE (IF sd # "" /\ m.date_part # sd THEN {"date"} ELSE {})
             \cup (IF expected_slug # "" /\ m.president_part # expected_slug
                   THEN {"president"} ELSE {})
             \cup (IF allowed_presidents # {} /\ expected_slug # ""
                      /\ expected_slug \notin allowed_presidents
                   THEN {"not_in_sheet"} ELSE {})

\* the voyages validated: those the parser derives from a president and a
\* voyage section, and the same with a voyage_slug given by hand
ValidatedTitles == {"Trip", "Sea Trip", "Trip at Sea"}
ParsedVoyage(title, sheet_pres_map) ==
    ParseDocMulti(<<Section("President", [k \in {"full_name"} |-> "F D"], <<>>),
                    Section("Voyage", VoyageKv("1933-04-23", title), <<>>)>>,
                  sheet_pres_map).bundles[1].voyage
GivenSlugs ==
    {"1933-04-23-fdr-trip", "1933-04-23-f-d-trip", "1933-04-23-f-d-sea-trip",
     "1933-04-24-f-d-trip", "1933-04-23-f-d", "1933-04-23-f-d-", "1933-04-23-f-dx-trip",
     "1933-04-23-F-D-trip", "f-d-trip", ""}
ValidatedVoyages(sheet_pres_map) ==
    {ParsedVoyage(t, sheet_pres_map) : t \in ValidatedTitles}
    \cup {Upsert(ParsedVoyage("Trip", sheet_pres_map), "voyage_slug", s) : s \in GivenSlugs}
\* the president_slug column of the presidents tab (validator.py:43-75)
AllowedPresidents == {{}, {"fdr"}, {"f-d", "fdr"}}
ValidateCalls ==
    {Pending("validate_bundle", [voyage |-> v, full_to_slug |-> pm, allowed_presidents |-> ap]) :
        v \in UNION {ValidatedVoyages(pm0) : pm0 \in PresMaps}, pm \in PresMaps,
        ap \in AllowedPresidents}

CallValidateBundle ==
    /\ call.fn = "validate_bundle" /\ ~call.done
    /\ call' = Returned(call, ValidateVoyageSlug(call.args.voyage, call.args.full_to_slug,
                                                 call.args.allowed_presidents))
    /\ UNCHANGED <<retryVars, dbVars, pipeVars, tabVars>>

(***************************************************************************)
(* president_from_voyage_slug (slugger.py:105-127); known is the set       *)
(* _read_president_slugs_from_env_sheet returns.                           *)
(***************************************************************************)

\* the loop over known (lines 119-123): the longest of the matching slugs
ShortestOf(S) == CHOOSE p \in S : \A q \in S : Len(p) <= Len(q)
LongestOf(S) == CHOOSE p \in S : \A q \in S : Len(p) >= Len(q)
\* rest.split("-", 1)[0]
FirstToken(rest) ==
    IF HyphenAt(rest) = {} THEN rest ELSE SubSeq(rest, 1, Min(HyphenAt(rest)) - 1)
PresidentFromVoyageSlug(voyage_slug, known) ==
    LET s == Lower(Strip(voyage_slug, White))
        rest == SubSeq(s, 12, Len(s))
        matching == {pres \in known : StartsWith(rest, pres \o "-") \/ rest = pres}
    IN  IF Len(s) < 12 \/ Ch(s, 5) # "-" \/ Ch(s, 8) # "-" \/ Ch(s, 11) # "-"
        THEN "unknown-president"
        ELSE IF known # {} /\ matching # {} /\ LongestOf(matching) # ""
        THEN LongestOf(matching)
        ELSE IF HyphenAt(rest) # {} THEN FirstToken(rest)
        ELSE IF rest # "" THEN rest ELSE "unknown-president"

\* the slugs asked about: a date and every rest of up to MaxRest characters
\* over a, b and the hyphen, one in upper case, and slugs without the date
MaxRest == 4
RestTexts == Texts({"a", "b", "-"}, MaxRest) \ {""}
AskedSlugs ==
    {"1933-04-23-" \o r : r \in RestTexts}
    \cup {" 1933-04-23-A-b ", "1933-04-23-", "1933-04-23", "19330423-a-b", ""}
\* the president_slug column of the presidents tab, lower case and not empty
\* (slugger.py:97-103)
KnownSlugs == SUBSET {"a", "a-b", "b", "a-b-a"}
PresidentCalls ==
    {Pending("president_from_voyage_slug", [voyage_slug |-> s, known |-> k]) :
        s \in AskedSlugs, k \in KnownSlugs}

CallPresidentFromVoyageSlug ==
    /\ call.fn = "president_from_voyage_slug" /\ ~call.done
    /\ call' = Returned(call, PresidentFromVoyageSlug(call.args.voyage_slug, call.args.known))
    /\ UNCHANGED <<retryVars, dbVars, pipeVars, tabVars>>

(***************************************************************************)
(* sort_order of a voyage_media row, as the database writer and as the     *)
(* spreadsheet writer derive it from the media slug.  NoSort is None.      *)
(***************************************************************************)

NoSort == [null |-> TRUE, n |-> 0]
SortIs(n) == [null |-> FALSE, n |-> n]
\* upsert_all (db_updater.py:382-386): mslug.rsplit("-", 1), parts[1].isdigit()
SortOfSlug(slug) ==
    LET mslug == Strip(slug, White)
        parts1 == SubSeq(mslug, Max(HyphenAt(mslug)) + 1, Len(mslug))
    IN  IF HyphenAt(mslug) # {} /\ IsDigits(parts1) THEN SortIs(IntOf(parts1)) ELSE NoSort
\* the group of _TRAILING_NUM_RE = .*?(\d+)$ : the longest run of digits that
\* ends the text (sheets_updater.py:511)
RECURSIVE TrailingNum(_)
TrailingNum(s) ==
    IF s # "" /\ IsDigit(Ch(s, Len(s)))
    THEN TrailingNum(SubSeq(s, 1, Len(s) - 1)) \o Ch(s, Len(s)) ELSE ""
\* _infer_sort_order (sheets_updater.py:513-526)
InferSortOrderOf(media_slug) ==
    IF TrailingNum(media_slug) = "" THEN NoSort ELSE SortIs(IntOf(TrailingNum(media_slug)))

\* the media slugs written: a generated one, and the texts of up to MaxSlug
\* characters over a letter, two digits and the hyphen
MaxSlug == 4
WrittenSlugs ==
    (Texts({"a", "0", "2", "-"}, MaxSlug) \ {""})
    \cup {"1933-04-23-b-1933-04-23-fdr-trip-01", "photo-12", "photo12"}
SortCalls == {Pending("sort_order", [media_slug |-> s]) : s \in WrittenSlugs}

\* the two derivations on one media slug
CallSortOrder ==
    /\ call.fn = "sort_order" /\ ~call.done
    /\ call' = Returned(call, [db |-> SortOfSlug(call.args.media_slug),
                               sheet |-> InferSortOrderOf(call.args.media_slug)])
    /\ UNCHANGED <<retryVars, dbVars, pipeVars, tabVars>>

LibCalls == GenerateCalls \cup ParseCalls \cup ValidateCalls \cup PresidentCalls \cup SortCalls
LibInit == call \in LibCalls
LibNext ==
    \/ CallGenerateMediaSlugs
    \/ CallParseDocMulti
    \/ CallValidateBundle
    \/ CallPresidentFromVoyageSlug
    \/ CallSortOrder
InitLib == LibInit /\ RetryIdle /\ DbIdle /\ PipeIdle /\ TabIdle
SpecLib == InitLib /\ [][LibNext]_vars

(***************************************************************************)
(* Properties of the slugger, the parser and the validator                 *)
(***************************************************************************)

\* the items of a call of generate_media_slugs that came without a slug, and
\* the scope of such an item
Generated(i) == call.args.items[i].slug = ""
ScopeOf(m, voyage_slug) == <<TokenizeDate(m.date), NormalizeSource(m.credit), voyage_slug>>
\* the number of items up to the i-th that were generated in the scope of the i-th
RankInScope(i) ==
    Cardinality({j \in 1..i :
        /\ call.args.items[j].slug = ""
        /\ ScopeOf(call.args.items[j], call.args.voyage_slug)
             = ScopeOf(call.args.items[i], call.args.voyage_slug)})

\* the NN of a generated slug counts, from 01, the items generated in its scope
C21_CountersPerScope ==
    Done("generate_media_slugs") =>
        \A i \in 1..Len(call.ret) :
            Generated(i) =>
                LET sc == ScopeOf(call.args.items[i], call.args.voyage_slug)
                IN  call.ret[i].slug =
                        sc[1] \o "-" \o sc[2] \o "-" \o sc[3] \o "-" \o Format02d(RankInScope(i))

(* C21: after generate_media_slugs no two items carry the same slug, for   *)
(* any mix of dates, credits and pre-set slugs, and the NN of a generated  *)
(* slug starts at 01 and increases by one per item within its              *)
(* (date_token, source_slug, voyage_slug) scope.                           *)
C21_MediaSlugsUnique ==
    /\ Done("generate_media_slugs") =>
          \A i, j \in 1..Len(call.ret) : i # j => call.ret[i].slug # call.ret[j].slug
    /\ C21_CountersPerScope

\* a text ending with a hyphen and exactly two digits
EndsWithNN(s) ==
    /\ Len(s) >= 3
    /\ Ch(s, Len(s) - 2) = "-"
    /\ IsDigit(Ch(s, Len(s) - 1)) /\ IsDigit(Ch(s, Len(s)))

(* C22: every media item of every bundle the parser returns carries a slug *)
(* as the slugger generates it: not empty, containing the voyage_slug of   *)
(* its bundle, and ending with a hyphen and two digits.                    *)
C22_ParsedMediaCarrySlugs ==
    Done("parse_doc_multi") =>
        \A i \in 1..Len(call.ret.bundles) :
            LET b == call.ret.bundles[i]
            IN  \A j \in 1..Len(b.media) :
                    /\ b.media[j].slug # ""
                    /\ b.media = GenerateMediaSlugs(b.media, Get(b.voyage, "voyage_slug"))
                    /\ Contains(b.media[j].slug, Get(b.voyage, "voyage_slug"))
                    /\ EndsWithNN(b.media[j].slug)

\* the voyages of a parse that got a voyage_slug, and the rank of such a voyage
\* among those of its (start_date, president_slug)
HasSlug(b) == "voyage_slug" \in DOMAIN b.voyage
SameDayAndPresident(a, b) ==
    /\ FirstNonempty(Get(a.voyage, "start_date")) = FirstNonempty(Get(b.voyage, "start_date"))
    /\ FirstNonempty(Get(a.voyage, "president_slug")) = FirstNonempty(Get(b.voyage, "president_slug"))
RankOfVoyage(bundles, i) ==
    Cardinality({j \in 1..i : HasSlug(bundles[j]) /\ SameDayAndPresident(bundles[j], bundles[i])})
Disambiguator(k) == IF k <= 1 THEN "" ELSE "-" \o Format02d(k)

(* C23: the voyage slugs of one parse are pairwise distinct; a voyage with *)
(* start_date, president and title has the slug                            *)
(* {start_date}-{president_slug}-{descriptor}, followed from the second    *)
(* voyage of the same (start_date, president_slug) on by -02, -03, ...     *)
C23_VoyageSlugsDistinct ==
    Done("parse_doc_multi") =>
        LET bundles == call.ret.bundles
        IN  /\ \A i, j \in 1..Len(bundles) :
                  (i # j /\ HasSlug(bundles[i]) /\ HasSlug(bundles[j])) =>
                      bundles[i].voyage["voyage_slug"] # bundles[j].voyage["voyage_slug"]
            /\ \A i \in 1..Len(bundles) :
                  HasSlug(bundles[i]) =>
                      bundles[i].voyage["voyage_slug"] =
                          FirstNonempty(Get(bundles[i].voyage, "start_date")) \o "-"
                          \o FirstNonempty(Get(bundles[i].voyage, "president_slug")) \o "-"
                          \o DescriptorFromTitle(FirstNonempty(Get(bundles[i].voyage, "title")), 5)
                          \o Disambiguator(RankOfVoyage(bundles, i))

\* the text of a key kept as the tuple of its parts (drive_sync.py:183, 188)
S3KeyText(key) ==
    "media/" \o key[2] \o "/" \o key[3] \o "/" \o key[4] \o "/" \o key[5] \o "/"
    \o key[6] \o key[7] \o "." \o key[8]
\* media/{president_slug}/{source_slug}/{voyage_slug}/{ext}/
ExtPrefix(pres, source, vslug, ext) ==
    "media/" \o pres \o "/" \o source \o "/" \o vslug \o "/" \o ext \o "/"

(* C24: every key that a run of main PUTs is the canonical key of a media  *)
(* item of the document: in the private bucket                             *)
(* media/{president_slug}/{source_slug}/{voyage_slug}/{ext}/{media_slug}.{ext}, *)
(* in the public bucket the same directory prefix followed by              *)
(* {media_slug}_preview.jpg or {media_slug}_thumb.jpg.                     *)
C24_CanonicalKey ==
    InMain =>
        \A k \in 1..Len(s3_log) :
            (s3_log[k].op = "PUT" /\ s3_log[k].ok) =>
                \E i \in 1..Len(run.doc) : \E j \in 1..Len(run.doc[i].media) :
                    LET v == run.doc[i].voyage.voyage_slug
                        m == run.doc[i].media[j]
                        ext == GuessedExt(m.google_drive_link)
                        prefix == ExtPrefix(PresidentOfVoyage(v), NormalizeSource(m.credit), v, ext)
                        text == S3KeyText(s3_log[k].obj.key)
                    IN  IF s3_log[k].obj.bucket = S3_PRIVATE_BUCKET
                        THEN text = prefix \o m.slug \o "." \o ext
                        ELSE text \in {prefix \o m.slug \o "_preview.jpg",
                                       prefix \o m.slug \o "_thumb.jpg"}

\* the rows of a join tab with the composite key (voyage_slug, other slug)
JoinRows(rows, key_col, v, slug) ==
    {r \in 1..Len(rows) : rows[r].voyage_slug = v /\ rows[r][key_col] = slug}

(* C25: after a run of main in upsert mode without remote failure, the     *)
(* voyage_passengers tab holds exactly one row for each                    *)
(* (voyage_slug, person_slug) pair of the valid voyages of the document,   *)
(* and the voyage_media tab one row for each (voyage_slug, media_slug)     *)
(* pair, also when two voyages share a passenger or a media slug.          *)
C25_JoinRowsByCompositeKey ==
    (InMain /\ RunDone /\ run.faults = 0 /\ run.cfg.mode = "upsert") =>
        \A i \in 1..Len(run.doc) :
            LET b == run.doc[i]
                v == b.voyage.voyage_slug
            IN  ValidationErrors(b) = 0 =>
                  /\ \A j \in 1..Len(b.passengers) :
                        b.passengers[j].slug # "" =>
                            Cardinality(JoinRows(sheet.voyage_passengers, "person_slug",
                                                 v, b.passengers[j].slug)) = 1
                  /\ \A j \in 1..Len(b.media) :
                        b.media[j].slug # "" =>
                            Cardinality(JoinRows(sheet.voyage_media, "media_slug",
                                                 v, b.media[j].slug)) = 1

(***************************************************************************)
(* Spreadsheet writer, one tab at row level (sheets_updater.py): the tab   *)
(* as the remote holds it (grid), the writer's INDEX_CACHE for it, _upsert *)
(* and delete_rows.  A remote call that fails has no effect on the tab; it *)
(* is retried by _execute_with_backoff until it succeeds or is given up.   *)
(***************************************************************************)

\* VOYAGE_PASSENGERS_HEADERS, without the columns the model leaves out
\* (sheets_updater.py:109-114)
TabHeaders == <<"voyage_slug", "person_slug">>
\* row[j] if j < len(row) else "" (sheets_updater.py:451, 656), columns from 1
Cell(row, j) == IF j >= 1 /\ j <= Len(row) THEN row[j] ELSE ""
\* headers.index(name), 0 when the name is not a header
ColIndex(header, name) ==
    IF \E j \in 1..Len(header) : header[j] = name
    THEN Min({j \in 1..Len(header) : header[j] = name}) ELSE 0
\* _dict_to_row (sheets_updater.py:455-456)
DictToRow(d, headers) == [j \in 1..Len(headers) |-> Get(d, headers[j])]

\* _execute_with_backoff on a call that fails n times with a retryable status
\* before it would succeed (sheets_updater.py:171-204)
ExecuteReturns(n) == \A attempt \in 1..n : ~SheetsGivesUp(attempt)

\* IndexCache.ensure_loaded (sheets_updater.py:245-257)
EnsureLoaded(cache, g, read_ok) ==
    IF cache.loaded \/ ~read_ok THEN cache
    ELSE [loaded |-> TRUE, rows |-> g.rows, keymap |-> NoKeymap, fetches |-> cache.fetches + 1]

\* the mapping IndexCache.get_row_index_by_key builds: the first row of each
\* key value, as a sheet row number with the header as row 1 (lines 276-283)
BuildKeymap(rows, kidx) ==
    LET keyed == {i \in 1..Len(rows) : kidx <= Len(rows[i])}
    IN  [k \in {rows[i][kidx] : i \in keyed} |->
            1 + Min({i \in keyed : rows[i][kidx] = k})]
WithKeymap(cache, headers, key_col) ==
    IF ColIndex(headers, key_col) = 0 \/ cache.keymap.built THEN cache
    ELSE [cache EXCEPT !.keymap =
            [built |-> TRUE, map |-> BuildKeymap(cache.rows, ColIndex(headers, key_col))]]
\* get_row_index_by_key (lines 263-285): the row number, 0 for None
GetRowIndexByKey(cache, headers, key_col, key_val) ==
    LET c == WithKeymap(cache, headers, key_col)
    IN  IF ColIndex(headers, key_col) = 0 THEN 0
        ELSE IF key_val \in DOMAIN c.keymap.map THEN c.keymap.map[key_val] ELSE 0

\* IndexCache.update_row (lines 287-301)
UpdateRow(cache, row_index, row_values) ==
    IF ~cache.loaded THEN cache
    ELSE [cache EXCEPT
            !.rows = IF row_index - 1 >= 1 /\ row_index - 1 <= Len(@)
                     THEN [@ EXCEPT ![row_index - 1] = row_values] ELSE @,
            !.keymap = NoKeymap]
\* IndexCache.append_row (lines 303-311)
AppendRowForgotten(cache, row_values) == cache
AppendRow(cache, row_values) ==
    IF ~cache.loaded THEN [cache EXCEPT !.keymap = NoKeymap]
    ELSE [cache EXCEPT !.rows = Append(@, row_values), !.keymap = NoKeymap]

\* values.update of one row range and values.append, as the remote applies them
RemoteUpdate(g, row_index, row_values) ==
    IF row_index - 1 >= 1 /\ row_index - 1 <= Len(g.rows)
    THEN [g EXCEPT !.rows = [@ EXCEPT ![row_index - 1] = row_values]]
    ELSE [g EXCEPT !.rows = @ \o [j \in 1..(row_index - 1 - Len(@)) |->
                                    IF j = row_index - 1 - Len(g.rows) THEN row_values ELSE <<>>]]
RemoteAppend(g, row_values) == [g EXCEPT !.rows = Append(@, row_values)]

\* _ensure_tab (lines 341-412): the tab exists and carries the headers
EnsureTab(g, headers) ==
    [exists |-> TRUE, header |-> headers, rows |-> IF g.exists THEN g.rows ELSE <<>>]

\* the remote calls of one _ensure_tabs, added to the calls counted so far:
\* spreadsheets.get at every call (line 349), one batchUpdate of addSheet
\* requests when a tab is missing (lines 363-366), one values.batchUpdate when
\* a header row differs (lines 391-402)
EnsureTabsCalls(n, g, headers) ==
    [meta_reads |-> n.meta_reads + 1,
     create_batches |-> n.create_batches + (IF g.exists THEN 0 ELSE 1),
     header_batches |-> n.header_batches + (IF g.exists /\ g.header = headers THEN 0 ELSE 1)]

\* _upsert (lines 467-504): the tab, the cache, the write requests that took
\* effect and whether the call raised; read_ok and write_ok tell whether the
\* read of ensure_loaded and the write return
UpsertOutcome(g, cache, headers, key_col, row_dict, read_ok, write_ok) ==
    LET g1 == EnsureTab(g, headers)
        c1 == EnsureLoaded(cache, g1, read_ok)
        key_val == Get(row_dict, key_col)
        row_index == GetRowIndexByKey(c1, headers, key_col, key_val)
        c2 == WithKeymap(c1, headers, key_col)
        row_values == DictToRow(row_dict, headers)
    IN  IF ~c1.loaded \/ key_val = "" THEN
            [grid |-> g1, cache |-> c1, requests |-> <<>>, raised |-> TRUE]
        ELSE IF ~write_ok THEN
            [grid |-> g1, cache |-> c2, requests |-> <<>>, raised |-> TRUE]
        ELSE IF row_index # 0 THEN
            [grid |-> RemoteUpdate(g1, row_index, row_values),
             cache |-> UpdateRow(c2, row_index, row_values),
             requests |-> <<[kind |-> "update", row |-> row_index]>>, raised |-> FALSE]
        ELSE
            [grid |-> RemoteAppend(g1, row_values),
             cache |-> AppendRow(c2, row_values),
             requests |-> <<[kind |-> "append", row |-> 0]>>, raised |-> FALSE]

\* delete_rows: the header names as compared (line 641, 645)
HeaderName(h) == Lower(Strip(h, White))
KeyColumns(header, key_columns) ==
    [j \in 1..Len(key_columns) |->
        ColIndex([i \in 1..Len(header) |-> HeaderName(header[i])], HeaderName(key_columns[j]))]
\* the key tuple of a row (line 656)
KeyTuple(row, col_idx) == [j \in 1..Len(col_idx) |-> Strip(Cell(row, col_idx[j]), White)]
\* to_delete_row_indices, 0-based with the header as row 0 (lines 651-658)
ToDeleteRowIndices(g, col_idx, key_set) ==
    {i \in 1..Len(g.rows) : KeyTuple(g.rows[i], col_idx) \in key_set}

\* sorted(indices, reverse=True) (lines 665, 687)
RECURSIVE SortedAscending(_)
SortedAscending(S) == IF S = {} THEN <<>> ELSE <<Min(S)>> \o SortedAscending(S \ {Min(S)})
RECURSIVE SortedDescending(_)
SortedDescending(S) == IF S = {} THEN <<>> ELSE <<Max(S)>> \o SortedDescending(S \ {Max(S)})

\* the deleteDimension requests of the batch, by startIndex (lines 664-675)
DeleteRequestsAscending(indices) == SortedAscending(indices)
DeleteRequests(indices) == SortedDescending(indices)

\* a sequence without its i-th element
RemoveAt(q, i) == IF i >= 1 /\ i <= Len(q) THEN SubSeq(q, 1, i - 1) \o SubSeq(q, i + 1, Len(q)) ELSE q
\* the batch as the remote applies it: one request after the other, each on
\* the rows the one before has left; startIndex counts the header as row 0
RECURSIVE ApplyDeletes(_, _)
ApplyDeletes(rows, requests) ==
    IF requests = <<>> THEN rows
    ELSE ApplyDeletes(RemoveAt(rows, Head(requests)), Tail(requests))
\* rows.pop(r - 1) for r in descending order (lines 684-693)
PopRowsForgotten(rows, requests) == rows
RECURSIVE PopRows(_, _)
PopRows(rows, requests) ==
    IF requests = <<>> THEN rows
    ELSE PopRows(RemoveAt(rows, Head(requests)), Tail(requests))

\* delete_rows (lines 607-695); meta_ok, read_ok and batch_ok tell whether the
\* three remote calls return
DeleteRowsOutcome(g, cache, key_columns, keys_to_delete, meta_ok, read_ok, batch_ok) ==
    LET col_idx == KeyColumns(g.header, key_columns)
        indices == ToDeleteRowIndices(g, col_idx, keys_to_delete)
        requests == DeleteRequests(indices)
        nothing == [grid |-> g, cache |-> cache, requests |-> <<>>, raised |-> FALSE, ret |-> 0]
        failed == [grid |-> g, cache |-> cache, requests |-> <<>>, raised |-> TRUE, ret |-> 0]
    IN  IF ~meta_ok THEN failed
        ELSE IF ~g.exists THEN nothing
        ELSE IF ~read_ok THEN failed
        ELSE IF g.header = <<>> /\ g.rows = <<>> THEN nothing
        ELSE IF \E j \in 1..Len(col_idx) : col_idx[j] = 0 THEN nothing
        ELSE IF indices = {} THEN nothing
        ELSE IF ~batch_ok THEN failed
        ELSE [grid |-> [g EXCEPT !.rows = ApplyDeletes(@, requests)],
              cache |-> IF cache.loaded
                        THEN [cache EXCEPT !.rows = PopRows(@, requests), !.keymap = NoKeymap]
                        ELSE cache,
              requests |-> requests, raised |-> FALSE, ret |-> Cardinality(indices)]

\* the tabs the writer starts from: missing, or with the headers or without the
\* person_slug header, and rows that may share a key or lack the key cell
TabRows == {<<"v1", "p1">>, <<"v2", "p1">>, <<"v1", "p2">>, <<"v1">>}
MaxRows == 2
MaxOps == 3
TabGrids ==
    {NoGrid} \cup
    {[exists |-> TRUE, header |-> h, rows |-> q] :
        h \in {TabHeaders, <<"voyage_slug">>}, q \in SeqsUpTo(TabRows, MaxRows)}
\* the join rows update_all upserts (sheets_updater.py:796-805)
RowDicts ==
    {[k \in {"voyage_slug", "person_slug"} |-> IF k = "voyage_slug" THEN v ELSE p] :
        v \in {"v1", "v2"}, p \in {"p1", "p2", ""}}
\* the key tuples the reconciler may hand to delete_rows
KeySets == SUBSET {<<"v1", "p1">>, <<"v2", "p1">>, <<"v1", "">>}
\* retryable failures a remote call meets before it would succeed
FailCounts == {0, 1, max_attempts}

TabInit ==
    /\ grid \in TabGrids
    /\ INDEX_CACHE = NoCache
    /\ tab_op = NoOp

\* a call of _upsert on the voyage_passengers tab, as update_all makes it
\* (sheets_updater.py:805)
TabUpsert ==
    /\ tab_op.seq < MaxOps
    /\ \E row_dict \in RowDicts, n_read, n_write \in FailCounts :
        LET out == UpsertOutcome(grid, INDEX_CACHE, TabHeaders, "person_slug", row_dict,
                                 ExecuteReturns(n_read), ExecuteReturns(n_write))
        IN  /\ grid' = out.grid
            /\ INDEX_CACHE' = out.cache
            /\ tab_op' = [op |-> "upsert", seq |-> tab_op.seq + 1, row |-> row_dict,
                          ensure |-> EnsureTabsCalls(tab_op.ensure, grid, TabHeaders),
                          keys |-> {}, raised |-> out.raised, requests |-> out.requests,
                          ret |-> 0, retried |-> n_write > 0, before |-> grid]
    /\ UNCHANGED <<retryVars, dbVars, pipeVars, libVars>>

\* a call of delete_rows on the tab by (voyage_slug, person_slug)
TabDeleteRows ==
    /\ tab_op.seq < MaxOps
    /\ \E keys \in KeySets, n_meta, n_read, n_batch \in {0, max_attempts} :
        LET out == DeleteRowsOutcome(grid, INDEX_CACHE, <<"voyage_slug", "person_slug">>, keys,
                                     ExecuteReturns(n_meta), ExecuteReturns(n_read),
                                     ExecuteReturns(n_batch))
        IN  /\ grid' = out.grid
            /\ INDEX_CACHE' = out.cache
            /\ tab_op' = [op |-> "delete", seq |-> tab_op.seq + 1, row |-> EmptyDict,
                          ensure |-> tab_op.ensure,
                          keys |-> keys, raised |-> out.raised, requests |-> out.requests,
                          ret |-> out.ret, retried |-> FALSE, before |-> grid]
    /\ UNCHANGED <<retryVars, dbVars, pipeVars, libVars>>

TabNext == TabUpsert \/ TabDeleteRows
InitTab == TabInit /\ RetryIdle /\ DbIdle /\ PipeIdle /\ LibIdle
SpecTab == InitTab /\ [][TabNext]_vars

(***************************************************************************)
(* Properties of the spreadsheet writer at row level                       *)
(***************************************************************************)

\* the cache, once loaded, holds the rows of the tab
CacheInStep == INDEX_CACHE.loaded => INDEX_CACHE.rows = grid.rows

\* the key column of the upserts on the tab, and the rows holding a key value
KeyCol == ColIndex(TabHeaders, "person_slug")
KeyedRows(g, key) == {i \in 1..Len(g.rows) : Cell(g.rows[i], KeyCol) = key}
\* at most one row per key value
NoDuplicateKeys(g) ==
    \A i, j \in 1..Len(g.rows) :
        (i # j /\ Cell(g.rows[i], KeyCol) # "") => Cell(g.rows[i], KeyCol) # Cell(g.rows[j], KeyCol)

\* a call of _upsert: when it raises the rows are as before; when its key is in
\* the tab one row holding the key is rewritten by a single update; when it is
\* not, the row is appended; and a tab without duplicate keys stays so
C26_UpsertStep ==
    (tab_op'.seq = tab_op.seq + 1 /\ tab_op'.op = "upsert") =>
        LET key == tab_op'.row["person_slug"]
            row_values == DictToRow(tab_op'.row, TabHeaders)
            hits == KeyedRows(grid, key)
        IN  /\ tab_op'.raised => (grid'.rows = grid.rows /\ tab_op'.requests = <<>>)
            /\ (~tab_op'.raised /\ hits # {}) =>
                  /\ Len(tab_op'.requests) = 1
                  /\ tab_op'.requests[1].kind = "update"
                  /\ Len(grid'.rows) = Len(grid.rows)
                  /\ \E i \in hits : grid'.rows = [grid.rows EXCEPT ![i] = row_values]
            /\ (~tab_op'.raised /\ hits = {}) =>
                  /\ Len(tab_op'.requests) = 1
                  /\ tab_op'.requests[1].kind = "append"
                  /\ grid'.rows = Append(grid.rows, row_values)
            /\ NoDuplicateKeys(grid) => NoDuplicateKeys(grid')

(* C26: an upsert whose key value is in the tab updates that row with a    *)
(* single range write, one whose key is absent appends one row, and a tab  *)
(* without duplicate keys has none after any sequence of upserts and       *)
(* deletes, retried remote calls included.                                 *)
C26_KeyedUpsert == [][C26_UpsertStep]_vars

\* the second of two upserts of one key has found the row the first appended,
\* after a retried write, in a tab without duplicate keys
C26_Witness ==
    /\ tab_op.op = "upsert" /\ tab_op.seq >= 2
    /\ ~tab_op.raised /\ tab_op.retried
    /\ Len(tab_op.requests) = 1 /\ tab_op.requests[1].kind = "update"
    /\ NoDuplicateKeys(tab_op.before) /\ NoDuplicateKeys(grid)
    /\ Len(grid.rows) >= 2

\* the data rows of q whose (voyage_slug, person_slug) cells, read by the
\* header, are not in the delete set, in their order
RECURSIVE RowsOutside(_, _, _)
RowsOutside(q, header, keys) ==
    IF q = <<>> THEN <<>>
    ELSE LET row == Head(q)
             tup == <<Cell(row, ColIndex(header, "voyage_slug")),
                      Cell(row, ColIndex(header, "person_slug"))>>
         IN  (IF tup \in keys THEN <<>> ELSE <<row>>) \o RowsOutside(Tail(q), header, keys)
\* the tab has both key columns
HasKeyColumns(g) ==
    g.exists /\ ColIndex(g.header, "voyage_slug") # 0 /\ ColIndex(g.header, "person_slug") # 0
StrictlyDescending(q) == \A i \in 1..(Len(q) - 1) : q[i] > q[i + 1]

(* C27: a call of delete_rows that returns has removed exactly the data    *)
(* rows whose key tuple is in the delete set, has left the header and the  *)
(* other rows in their order, has issued its deleteDimension requests in   *)
(* strictly descending row index order, one per removed row, and returns   *)
(* the number of rows removed; it returns 0 and issues no request when the *)
(* tab or a key column is missing.                                         *)
C27_DeleteByKey ==
    (tab_op.op = "delete" /\ ~tab_op.raised) =>
        LET before == tab_op.before
        IN  IF ~HasKeyColumns(before)
            THEN tab_op.ret = 0 /\ tab_op.requests = <<>> /\ grid = before
            ELSE /\ grid.rows = RowsOutside(before.rows, before.header, tab_op.keys)
                 /\ grid.header = before.header
                 /\ StrictlyDescending(tab_op.requests)
                 /\ Len(tab_op.requests) = tab_op.ret
                 /\ tab_op.ret = Len(before.rows) - Len(grid.rows)
                 /\ \A i \in 1..Len(tab_op.requests) :
                        /\ tab_op.requests[i] \in 1..Len(before.rows)
                        /\ <<Cell(before.rows[tab_op.requests[i]], 1),
                             Cell(before.rows[tab_op.requests[i]], 2)>> \in tab_op.keys

\* a delete has removed two rows of a tab and left a third
C27_Witness ==
    /\ tab_op.op = "delete" /\ ~tab_op.raised
    /\ tab_op.ret = 2 /\ Len(tab_op.requests) = 2
    /\ Len(tab_op.before.rows) = 3 /\ Len(grid.rows) = 1
\* a delete on a tab without the person_slug column has returned 0
C27_WitnessMissingColumn ==
    /\ tab_op.op = "delete" /\ ~tab_op.raised
    /\ tab_op.before.exists /\ ~HasKeyColumns(tab_op.before)
    /\ tab_op.before.rows # <<>> /\ tab_op.keys # {}

\* the voyage of a call of validate_bundle, and what its slug should begin with
ValidatedVoyage == call.args.voyage
SlugPrefix ==
    SubSeq(Get(ValidatedVoyage, "start_date"), 1, 10) \o "-"
        \o ExpectedSlug(ValidatedVoyage, call.args.full_to_slug) \o "-"
SlugErrors == call.ret \cap {"format", "date", "president"}
KnownDateAndPresident ==
    /\ Get(ValidatedVoyage, "start_date") # ""
    /\ ExpectedSlug(ValidatedVoyage, call.args.full_to_slug) # ""
    /\ Get(ValidatedVoyage, "voyage_slug") # ""

(* C28: for a voyage whose start_date and president are known,             *)
(* validate_bundle reports no voyage_slug error exactly when voyage_slug   *)
(* begins with {start_date}-{expected_president_slug}-, whatever the       *)
(* descriptor that follows.                                                *)
C28_SlugPrefixRule ==
    (Done("validate_bundle") /\ KnownDateAndPresident) =>
        (SlugErrors = {} <=> StartsWith(Get(ValidatedVoyage, "voyage_slug"), SlugPrefix))

\* the weaker half: a voyage_slug without the prefix is always reported
C28_NoPrefixReported ==
    (Done("validate_bundle") /\ KnownDateAndPresident
        /\ ~StartsWith(Get(ValidatedVoyage, "voyage_slug"), SlugPrefix)) => SlugErrors # {}
\* a voyage_slug the parser derived from a title of two words is rejected
C28_ParsedSlugRejected ==
    /\ Done("validate_bundle")
    /\ ValidatedVoyage = ParsedVoyage("Sea Trip", call.args.full_to_slug)
    /\ "president" \in call.ret

\* the <rest> of the slug asked about, and the registry slugs that it equals
\* or that it starts with, a hyphen following
AskedRest == SubSeq(Lower(Strip(call.args.voyage_slug, White)), 12,
                    Len(Lower(Strip(call.args.voyage_slug, White))))
HasDateAndRest ==
    /\ StartsWith(Lower(Strip(call.args.voyage_slug, White)), "1933-04-23-")
    /\ AskedRest # ""
PrefixingSlugs ==
    {p \in call.args.known :
        \/ AskedRest = p
        \/ Len(AskedRest) > Len(p) /\ SubSeq(AskedRest, 1, Len(p) + 1) = p \o "-"}

(* C29: for a slug YYYY-MM-DD-<rest> and a president registry,             *)
(* president_from_voyage_slug returns the longest registry slug that       *)
(* <rest> equals or starts with, a hyphen following; when no registry slug *)
(* matches, it returns the first hyphen-delimited token of <rest>.         *)
C29_LongestKnownPrefix ==
    (Done("president_from_voyage_slug") /\ HasDateAndRest) =>
        IF PrefixingSlugs # {}
        THEN /\ call.ret \in PrefixingSlugs
             /\ \A p \in PrefixingSlugs : Len(p) <= Len(call.ret)
        ELSE \/ HyphenAt(AskedRest) = {} /\ call.ret = AskedRest
             \/ /\ HyphenAt(AskedRest) # {}
                /\ StartsWith(AskedRest, call.ret \o "-")
                /\ HyphenAt(call.ret) = {}

\* two registry slugs prefix the rest and the longer one, which holds a
\* hyphen, is returned
C29_Witness ==
    /\ Done("president_from_voyage_slug") /\ HasDateAndRest
    /\ Cardinality(PrefixingSlugs) >= 2
    /\ call.ret = "a-b" /\ AskedRest = "a-b-"
\* no registry slug matches and the first token is returned
C29_WitnessFallback ==
    /\ Done("president_from_voyage_slug") /\ HasDateAndRest
    /\ call.args.known # {} /\ PrefixingSlugs = {}
    /\ AskedRest = "b-a" /\ call.ret = "b"

\* the digits after the last hyphen of the slug, "" when the slug has no
\* hyphen or something else than digits follows the last one: -(\d+)$
HyphenSuffix(s) ==
    IF HyphenAt(s) = {} THEN ""
    ELSE LET tail == SubSeq(s, Max(HyphenAt(s)) + 1, Len(s))
         IN  IF IsDigits(tail) THEN tail ELSE ""
SortBySuffix(s) == IF HyphenSuffix(s) = "" THEN NoSort ELSE SortIs(IntOf(HyphenSuffix(s)))

(* C30: sort_order is the integer of the digits that follow the last       *)
(* hyphen of media_slug, and null when the slug has no such suffix; the    *)
(* database writer and the spreadsheet writer derive the same sort_order   *)
(* for every media_slug.                                                   *)
C30_SameSortOrder ==
    Done("sort_order") =>
        /\ call.ret.db = SortBySuffix(call.args.media_slug)
        /\ call.ret.sheet = SortBySuffix(call.args.media_slug)

\* the database writer follows the pattern
C30_DbBySuffix == Done("sort_order") => call.ret.db = SortBySuffix(call.args.media_slug)
\* the two writers agree on every slug that ends in a hyphen and digits
C30_AgreeOnSuffixed ==
    (Done("sort_order") /\ HyphenSuffix(call.args.media_slug) # "") =>
        call.ret.db = call.ret.sheet
\* the spreadsheet writer has taken digits that no hyphen precedes
C30_SheetTakesBareDigits ==
    /\ Done("sort_order") /\ call.args.media_slug = "photo12"
    /\ call.ret.db = NoSort /\ call.ret.sheet = SortIs(12)

(***************************************************************************)
(* Properties of the database connections and of the presidents flag       *)
(***************************************************************************)

\* the operations of the writer that open a connection
ConnOps == {"upsert_all"} \cup ResetOps

(* C31: every connection the database writer opens has autocommit off;     *)
(* when the operation is over, whether it returned, raised in a statement  *)
(* or raised in commit, the connection is closed and its transaction was   *)
(* ended by one commit that returned or by one rollback, never both and    *)
(* never neither.                                                          *)
C31_ConnectionDiscipline ==
    /\ tx.step # "idle" =>
          /\ ~tx.conn.autocommit /\ ~tx.conn.closed
          /\ tx.conn.committed = 0 /\ tx.conn.rollback_calls = 0
    /\ db_last.op \in ConnOps =>
          /\ ~db_last.conn.autocommit
          /\ db_last.conn.closed
          /\ db_last.conn.committed + db_last.conn.rollback_calls = 1
          /\ db_last.conn.commit_calls <= 1
          /\ db_last.raised <=> db_last.conn.rollback_calls = 1

\* an upsert_all whose commit raised is over: one commit call that did not
\* return, one rollback, the connection closed
C31_Witness ==
    /\ db_last.op = "upsert_all" /\ db_last.raised /\ db_last.at = "commit"
    /\ db_last.conn.commit_calls = 1 /\ db_last.conn.committed = 0
    /\ db_last.conn.rollback_calls = 1 /\ db_last.conn.closed
    /\ tx = NoTx

\* the key values upserted, and the row number a lookup of one returns
UpsertKeys == {"p1", "p2"}
LookedUp(key) == GetRowIndexByKey(INDEX_CACHE, TabHeaders, "person_slug", key)

(* C32: with no other writer, after any sequence of _upsert and            *)
(* delete_rows calls the data rows the index cache holds for the tab are   *)
(* the tab's data rows in the same order, a lookup of a key returns the    *)
(* row number of a row that holds the key (none when no row holds it), and *)
(* the upsert path has fetched the data rows at most once.                 *)
C32_CacheCoherent ==
    /\ INDEX_CACHE.fetches <= 1
    /\ INDEX_CACHE.loaded =>
          /\ INDEX_CACHE.fetches = 1
          /\ INDEX_CACHE.rows = grid.rows
          /\ \A key \in UpsertKeys :
                IF KeyedRows(grid, key) = {} THEN LookedUp(key) = 0
                ELSE LookedUp(key) - 1 \in KeyedRows(grid, key)

\* with the cache loaded, a delete has removed the row above the row of p2,
\* and the lookup of p2 follows the row from sheet row 3 to sheet row 2
C32_Witness ==
    /\ INDEX_CACHE.loaded
    /\ tab_op.op = "delete" /\ ~tab_op.raised /\ tab_op.ret = 1
    /\ KeyedRows(tab_op.before, "p2") = {2}
    /\ KeyedRows(grid, "p2") = {1}
    /\ LookedUp("p2") = 2

(***************************************************************************)
(* Properties of the tab ensure, of the parser's sections, of the backoff  *)
(* and of the media links                                                  *)
(***************************************************************************)

\* C33: tab ensure is one-shot: over the upserts of a run the spreadsheet
\* metadata is read from the remote at most once, the missing tab is created
\* in at most one batch and its header row is corrected in at most one batched
\* values-update
C33_EnsureOneShot ==
    /\ tab_op.ensure.meta_reads <= 1
    /\ tab_op.ensure.create_batches <= 1
    /\ tab_op.ensure.header_batches <= 1
\* the part of C33 the writer keeps: one creating batch, one header batch
C33_OneBatchEach ==
    /\ tab_op.ensure.create_batches <= 1
    /\ tab_op.ensure.header_batches <= 1
\* a second upsert on a tab that exists with its headers reads the metadata again
C33_SecondMetadataRead ==
    /\ tab_op.op = "upsert" /\ tab_op.seq = 2
    /\ tab_op.before.exists /\ tab_op.before.header = TabHeaders
    /\ tab_op.ensure.meta_reads = 2

\* the sections of a parsed document by kind, and the k-th index of a set
ParsedSections == call.args.sections
VoyageAt(sections) == {i \in 1..Len(sections) : sections[i].name = "Voyage"}
PresidentsBefore(sections, i) == {j \in 1..(i - 1) : sections[j].name = "President"}
NthOf(S, k) == CHOOSE i \in S : Cardinality({j \in S : j <= i}) = k
\* the bundles are the voyage sections in S, one each and in order, and each
\* carries the president of the last President section before it
BundlesFollow(S, sections, sheet_pres_map, bundles) ==
    /\ Len(bundles) = Cardinality(S)
    /\ \A k \in 1..Len(bundles) :
          k <= Cardinality(S) =>
              /\ Get(bundles[k].voyage, "title") = Get(sections[NthOf(S, k)].kv, "title")
              /\ Get(bundles[k].voyage, "start_date") = Get(sections[NthOf(S, k)].kv, "start_date")
              /\ PresidentsBefore(sections, NthOf(S, k)) # {} =>
                    /\ Get(bundles[k].voyage, "president") =
                          PresidentIn(sections[Max(PresidentsBefore(sections, NthOf(S, k)))].kv,
                                      sheet_pres_map)["full_name"]
                    /\ Get(bundles[k].voyage, "president_slug") =
                          PresidentIn(sections[Max(PresidentsBefore(sections, NthOf(S, k)))].kv,
                                      sheet_pres_map)["president_slug"]

\* C34: the parser emits one bundle per Voyage section, in document order, and
\* every bundle's voyage carries the full name and the president_slug of the
\* most recent President section before its Voyage section
C34_PresidentContext ==
    Done("parse_doc_multi") =>
        BundlesFollow(VoyageAt(ParsedSections), ParsedSections, call.args.sheet_pres_map,
                      call.ret.bundles)
\* the Voyage sections the parser makes a bundle of: those with a field, and
\* those that get the president's fields from a President section before them
Emitting(sections) ==
    {i \in VoyageAt(sections) :
        DOMAIN sections[i].kv # {} \/ PresidentsBefore(sections, i) # {}}
\* the Voyage sections that name a president themselves
NamesPresident(sections) ==
    {i \in VoyageAt(sections) : DOMAIN sections[i].kv \cap {"president", "president_slug"} # {}}
\* what the parser keeps of C34: one bundle per Voyage section it does not
\* pass over, with the president in hand where the voyage names none
C34_ContextOfEmittedVoyages ==
    (Done("parse_doc_multi") /\ NamesPresident(ParsedSections) = {}) =>
        BundlesFollow(Emitting(ParsedSections), ParsedSections, call.args.sheet_pres_map,
                      call.ret.bundles)
\* a Voyage section without fields before any President section gives no bundle
C34_FieldlessVoyageLost ==
    /\ Done("parse_doc_multi")
    /\ ParsedSections = <<Section("Voyage", EmptyDict, <<>>)>>
    /\ call.ret.bundles = <<>>
\* a voyage that names its president keeps that name and gets the slug of the
\* President section before it
C34_OwnPresidentKept ==
    /\ Done("parse_doc_multi")
    /\ ParsedSections = <<Section("President", [k \in {"full_name"} |-> "F D"], <<>>),
                          Section("Voyage", VoyageOf("H T"), <<>>)>>
    /\ call.args.sheet_pres_map = [k \in {"f d"} |-> "fdr"]
    /\ Len(call.ret.bundles) = 1
    /\ call.ret.bundles[1].voyage["president"] = "H T"
    /\ call.ret.bundles[1].voyage["president_slug"] = "fdr"

\* the blocks of a kind between a Voyage section and the next Voyage or
\* President section
SpanEnd(sections, i) ==
    Min({j \in (i + 1)..Len(sections) : sections[j].name \in {"Voyage", "President"}}
        \cup {Len(sections) + 1})
BlocksIn(sections, i, name) ==
    {j \in (i + 1)..(SpanEnd(sections, i) - 1) : sections[j].name = name}
\* a list holds only entries of the blocks of the Voyage section, and nothing
\* when the Voyage section has no fields
OnlyFrom(list, sections, i, name) ==
    IF DOMAIN sections[i].kv = {} THEN list = <<>>
    ELSE \A n \in 1..Len(list) :
            \E j \in BlocksIn(sections, i, name) :
                \E m \in 1..Len(sections[j].entries) : sections[j].entries[m] = list[n]
Isolated(sections, bundles) ==
    \A k \in 1..Len(bundles) :
        k <= Cardinality(Emitting(sections)) =>
            /\ OnlyFrom(bundles[k].passengers, sections, NthOf(Emitting(sections), k), "Passengers")
            /\ OnlyFrom(bundles[k].media, sections, NthOf(Emitting(sections), k), "Media")

\* C35: a bundle's passengers and media come only from the Passengers and Media
\* sections between its Voyage section and the next Voyage or President
\* section; a block without an active voyage, such as one after a Voyage
\* section without fields, is in no bundle
C35_BundleIsolation ==
    Done("parse_doc_multi") => Isolated(ParsedSections, call.ret.bundles)
\* what the parser keeps of C35: isolation in the documents whose Voyage
\* sections all have a field
C35_IsolationOfFilledVoyages ==
    (/\ Done("parse_doc_multi")
     /\ \A i \in VoyageAt(ParsedSections) : DOMAIN ParsedSections[i].kv # {}) =>
        Isolated(ParsedSections, call.ret.bundles)
\* the passengers block after a Voyage section without fields ends up in the
\* bundle of the next voyage
C35_StrayPassengersAdopted ==
    /\ Done("parse_doc_multi")
    /\ Len(ParsedSections) = 3
    /\ ParsedSections[1] = Section("Voyage", EmptyDict, <<>>)
    /\ ParsedSections[2].name = "Passengers"
    /\ ParsedSections[3] = Section("Voyage", VoyageKv("1933-04-23", "Trip"), <<>>)
    /\ Len(call.ret.bundles) = 1
    /\ Get(call.ret.bundles[1].voyage, "title") = "Trip"
    /\ call.ret.bundles[1].passengers = ParsedSections[2].entries

\* the last sleep of the harness follows the Retry-After header of the failed
\* response when it has one, and is at most BACKOFF_MAX when it has none
SleepBounded ==
    IF r_remote.retry_after.given /\ r_remote.retry_after.numeric
    THEN r_slept = r_remote.retry_after.ms
    ELSE r_slept <= BACKOFF_MAX
\* C36: every sleep of a retry harness between two attempts is at most
\* BACKOFF_MAX, except that it is the server-indicated delay when the failed
\* response carries a Retry-After header
C36_BackoffBound == r_sleeps > 0 => SleepBounded
\* what the harnesses keep of C36: _gapi_with_retry never sleeps longer than
\* BACKOFF_MAX, and _execute_with_backoff sleeps the delay of a Retry-After header
C36_GapiCapped == (r_harness = "gapi" /\ r_sleeps > 0) => r_slept <= BACKOFF_MAX
C36_SheetsHonorsRetryAfter ==
    (r_harness = "sheets" /\ r_sleeps > 0 /\ r_remote.retry_after.given
        /\ r_remote.retry_after.numeric) => r_slept = r_remote.retry_after.ms
\* _execute_with_backoff sleeps 32 s before its eighth attempt
C36_SheetsSleepsLonger ==
    /\ r_harness = "sheets" /\ ~r_remote.retry_after.given
    /\ r_sleeps = 7 /\ r_slept = 32000
\* _gapi_with_retry sleeps its own backoff on a response that asks for 60 s
C36_GapiIgnoresRetryAfter ==
    /\ r_harness = "gapi" /\ r_remote.err = "429"
    /\ r_remote.retry_after.given /\ r_remote.retry_after.ms = 60000
    /\ r_sleeps = 1 /\ r_slept = 400

\* the result map of process_all_media in the run in hand
RecordedLinks == IF run.pc = "idle" THEN EmptyMap ELSE run.links
InStore(url) == Obj(url.bucket, url.key) \in s3
\* the media type in a key of the store
TypeOfKey(key) == key[5]

\* C37: in the result map of process_all_media a public preview URL is there
\* only for an image whose preview object is in the public namespace at the
\* URL's key
C37_PublicUrlOnlyForPreviews ==
    \A slug \in DOMAIN RecordedLinks :
        RecordedLinks[slug].pub # NoUrl =>
            /\ TypeOfKey(RecordedLinks[slug].pub.key) = "image"
            /\ InStore(RecordedLinks[slug].pub)
\* what the step keeps of C37: the public URL of an item that was downloaded
\* and uploaded, which is the only way of a run of main
C37_HoldsWithoutMove ==
    \A slug \in DOMAIN RecordedLinks :
        (RecordedLinks[slug].pub # NoUrl
            /\ \A i \in 1..Len(s3_log) : s3_log[i].op # "COPY") =>
                /\ TypeOfKey(RecordedLinks[slug].pub.key) = "image"
                /\ InStore(RecordedLinks[slug].pub)
\* a moved item whose preview was never in the store is recorded with a
\* public URL
C37_MovedWithoutPreview ==
    /\ run.pc = "done" /\ run.faults = 0
    /\ \E slug \in DOMAIN run.links :
          /\ run.links[slug].pub # NoUrl
          /\ ~InStore(run.links[slug].pub)
\* a moved item of no known type is recorded with a public URL
C37_MovedNonImage ==
    /\ run.pc = "done"
    /\ \E slug \in DOMAIN run.links :
          /\ run.links[slug].pub # NoUrl
          /\ TypeOfKey(run.links[slug].pub.key) = "other"

\* C38: when the run is over, every private s3_url that process_all_media
\* recorded for an item names an object of the store
C38_RecordedOriginalsExist ==
    RunOver =>
        \A slug \in DOMAIN run.links :
            run.links[slug].orig # NoUrl => InStore(run.links[slug].orig)
\* what the step keeps of C38: the recorded originals of a run without move
C38_HoldsWithoutMove ==
    (RunOver /\ \A i \in 1..Len(s3_log) : s3_log[i].op # "COPY") =>
        \A slug \in DOMAIN run.links :
            run.links[slug].orig # NoUrl => InStore(run.links[slug].orig)
\* two items of one document share a link: the first is uploaded under the key
\* the media tab holds for the link, the move of the second deletes that object
C38_SharedLinkDeleted ==
    /\ run.pc = "done" /\ run.faults = 0
    /\ Len(run.doc[1].media) = 2
    /\ run.doc[1].media[1].google_drive_link = run.doc[1].media[2].google_drive_link
    /\ DOMAIN run.links = {"v1-01", "v1-02"}
    /\ run.links["v1-01"].orig # NoUrl /\ ~InStore(run.links["v1-01"].orig)
    /\ InStore(run.links["v1-02"].orig)

\* the upsert_all that ended last, rolled back or committed
RolledBack == db_last.op = "upsert_all" /\ db_last.raised
Committed == db_last.op = "upsert_all" /\ ~db_last.raised
\* C39: the presidents flag agrees with the committed state: an upsert_all that
\* is rolled back leaves the flag as it was when the transaction began, so the
\* flag is set only when a presidents upsert has been committed
C39_FlagAgreesWithCommit == (RolledBack /\ PRES_UPSERTED) => db_last.flagged_before
\* what the writer keeps of C39: an upsert_all that commits with the flag unset
\* at its beginning has set the flag and committed the rows of the presidents tab
C39_CommittedUpsertSetsFlag ==
    (Committed /\ ~db_last.flagged_before) =>
        (PRES_UPSERTED /\ pres_sheet \subseteq db.presidents)
\* the first upsert_all of the process upserts the presidents, sets the flag
\* and is rolled back: the flag is set, the presidents table is empty
C39_FlagLeftByRollback ==
    /\ RolledBack /\ ~db_last.flagged_before
    /\ PRES_UPSERTED
    /\ pres_sheet = {"hst"}
    /\ db.presidents = {}
\* the upsert_all after it commits a voyage without upserting the presidents
C39_PresidentsSuppressed ==
    /\ Committed /\ db_last.flagged_before
    /\ pres_sheet = {"hst"}
    /\ db.presidents = {}
    /\ DOMAIN db.voyages # {}

\* the keys of the master tabs of the spreadsheet
SheetPersonSlugs == {sheet.passengers[i].person_slug : i \in 1..Len(sheet.passengers)}
SheetMediaSlugs == {sheet.media[i].media_slug : i \in 1..Len(sheet.media)}
MediaJoinsHaveMasters ==
    \A i \in 1..Len(sheet.voyage_media) : sheet.voyage_media[i].media_slug \in SheetMediaSlugs
\* C40: every join row of the spreadsheet references a master row of the
\* spreadsheet: the person_slug of a voyage_passengers row is in the passengers
\* tab and the media_slug of a voyage_media row is in the media tab
C40_JoinRowsReferenceMasters ==
    /\ \A i \in 1..Len(sheet.voyage_passengers) :
          sheet.voyage_passengers[i].person_slug \in SheetPersonSlugs
    /\ MediaJoinsHaveMasters
\* what update_all keeps of C40: the media joins
C40_MediaJoinsReferenceMasters == MediaJoinsHaveMasters
\* update_all has written the join row of a passenger without full_name and
\* no passengers row
C40_JoinWithoutMaster ==
    /\ run.pc = "done" /\ run.faults = 0
    /\ run.doc[1].passengers = <<Nameless("p1")>>
    /\ \E i \in 1..Len(sheet.voyage_passengers) :
          /\ sheet.voyage_passengers[i].person_slug = "p1"
          /\ sheet.voyage_passengers[i].voyage_slug = "v2"
    /\ "p1" \notin SheetPersonSlugs

====
